---- MODULE Spec2Model ----
(***************************************************************************)
(* T80 wheel -> TQi transmitter controller.                                *)
(*                                                                         *)
(* Two programs share one transform pipeline:                              *)
(*   - t80_gui.py    : InputController (loop thread) driven by T80GUI      *)
(*   - t80_to_tqi.py : the standalone main() loop                          *)
(*                                                                         *)
(* Python floats in [-1,1] are modelled in fixed point: the integer v      *)
(* stands for v / Scale.  Raw axis samples, DAC codes and bus bytes are    *)
(* plain integers.  Wall-clock time (time.time()) is an integer number of  *)
(* clock units, ClockHz units per second.                                  *)
(***************************************************************************)
EXTENDS Integers, Sequences, FiniteSets, TLC

\* ---------------------------------------------------------------- bounds

\* Last clock value the environment advances to, per specification.
MaxTimeGui == 2
MaxTimePedal == 4
MaxTimeCli == 4
MaxTimeQuant == 2
MaxTimeShape == 1
MaxTimeLoad == 2
MaxTimeBind == 2
MaxTimeCalib == 2
MaxTimeTune == 2
MaxTimeRamp == 5
MaxTimeDigital == 2

\* Direct calls: progress samples per unit, largest curve strength.
CurveGrid == 8
MaxStrength == 3

\* Direct calls: input and clamp samples per unit.
CodeGrid == 10

\* Clock units per second (granularity of the modelled wall clock).
ClockHz == 4

\* Loop threads of the GUI program alive at the same time.
MaxThreads == 2

\* Fixed-point denominator for Python floats.
Scale == 100 * 100

\* ------------------------------------------------------ program constants

\* Python None for a press-start timestamp (timestamps are >= 0).
None == -1

\* Inverse-extreme sentinel pair of the calibration bounds.
SentinelMin == 32767
SentinelMax == -32768

\* Mid-scale DAC code.
center == 2048

\* MCP4725 "write DAC register" command byte.
CmdWriteDac == 64

\* Window lengths of the two moving averages.
SteeringWindow == 5
ThrottleWindow == 3

\* Full-scale raw value assumed for an Xbox trigger.
TriggerMax == 255

\* evdev event codes named by the default configuration.
ABS_X == 0
ABS_Y == 1
ABS_Z == 2
ABS_RX == 3
ABS_RY == 4
ABS_RZ == 5
ABS_THROTTLE == 6
ABS_BRAKE == 10
BTN_TRIGGER == 288
BTN_THUMB == 289
BTN_TL == 310
BTN_TR == 311

\* ------------------------------------------------------------ arithmetic

Abs(a) == IF a < 0 THEN -a ELSE a

Min2(a, b) == IF a <= b THEN a ELSE b

Max2(a, b) == IF a >= b THEN a ELSE b

\* Integer nearest to a / b (b # 0), ties away from zero: the fixed-point
\* image of a float division.
FDiv(a, b) ==
    LET n == IF b < 0 THEN -a ELSE a
        d == Abs(b)
        q == (2 * Abs(n) + d) \div (2 * d)
    IN  IF n < 0 THEN -q ELSE q

\* Fixed-point product of two fixed-point values.
FMul(a, b) == FDiv(a * b, Scale)

\* Python 3 round() of the non-negative rational p / q (q > 0): nearest
\* integer, ties to the even one.
PyRound(p, q) ==
    LET fl == p \div q
        r  == p % q
    IN  IF 2 * r < q THEN fl
        ELSE IF 2 * r > q THEN fl + 1
        ELSE IF fl % 2 = 0 THEN fl ELSE fl + 1

RECURSIVE SeqSum(_)
SeqSum(s) == IF s = <<>> THEN 0 ELSE Head(s) + SeqSum(Tail(s))

\* ------------------------------------------------------- pure transforms

\* InputController.normalize / normalize: raw sample -> [-1,1].
normalize(value, vmin, vmax) ==
    LET span == IF vmax - vmin = 0 THEN 1 ELSE vmax - vmin
        x    == FDiv(2 * (value - vmin) * Scale, span) - Scale
    IN  Max2(-Scale, Min2(Scale, x))

\* InputController.apply_deadzone / apply_deadzone.
apply_deadzone(x, deadzone) ==
    IF Abs(x) <= deadzone THEN 0
    ELSE LET sign == IF x >= 0 THEN 1 ELSE -1
         IN  sign * FDiv((Abs(x) - deadzone) * Scale, Scale - deadzone)

\* InputController.apply_expo / expo.
apply_expo(x, expo) ==
    IF expo <= 0 THEN x
    ELSE FDiv((Scale - expo) * x + expo * FMul(FMul(x, x), x), Scale)

\* progress ** strength for a whole-number strength.
RECURSIVE FPow(_, _)
FPow(p, n) == IF n = 0 THEN Scale ELSE FMul(p, FPow(p, n - 1))

\* 1 / (1 + math.exp(-x)) sampled at x = k/2, k in -8..8, in fixed point.
LogisticTable ==
    [k \in -8..8 |->
        CASE k = -8 -> 180   [] k = -7 -> 293   [] k = -6 -> 474
          [] k = -5 -> 759   [] k = -4 -> 1192  [] k = -3 -> 1824
          [] k = -2 -> 2689  [] k = -1 -> 3775  [] k = 0  -> 5000
          [] k = 1  -> 6225  [] k = 2  -> 7311  [] k = 3  -> 8176
          [] k = 4  -> 8808  [] k = 5  -> 9241  [] k = 6  -> 9526
          [] k = 7  -> 9707  [] k = 8  -> 9820]

\* The logistic function of the fixed-point x: table value, linearly
\* interpolated between samples, held at the end samples beyond +-4.
Logistic(x) ==
    LET h  == Scale \div 2
        xx == Max2(-8 * h, Min2(8 * h, x))
        k  == (xx + 8 * h) \div h - 8
        lo == LogisticTable[k]
        hi == LogisticTable[Min2(8, k + 1)]
    IN  lo + FDiv((hi - lo) * (xx - k * h), h)

\* The curve with an unknown shape name yielding no acceleration at all.
apply_acceleration_curve_strict(progress, curve_type, strength) ==
    IF progress <= 0 THEN 0
    ELSE IF progress >= Scale THEN Scale
    ELSE IF curve_type = "linear" THEN progress
    ELSE IF curve_type = "exponential" THEN FPow(progress, strength)
    ELSE IF curve_type = "quadratic" THEN FPow(progress, 2)
    ELSE IF curve_type = "s_curve"
         THEN Logistic((progress - Scale \div 2) * strength * 2)
    ELSE 0

\* The curve without the two guards on the ends of the progress range.
apply_acceleration_curve_unguarded(progress, curve_type, strength) ==
    IF curve_type = "linear" THEN progress
    ELSE IF curve_type = "exponential"
         THEN FPow(Max2(0, progress), strength)
    ELSE IF curve_type = "quadratic" THEN FPow(progress, 2)
    ELSE IF curve_type = "s_curve"
         THEN Logistic((progress - Scale \div 2) * strength * 2)
    ELSE progress

\* InputController.apply_acceleration_curve / apply_acceleration_curve.
\* strength is a whole number (curve_strength 1.0, 2.0, 3.0).
apply_acceleration_curve(progress, curve_type, strength) ==
    IF progress <= 0 THEN 0
    ELSE IF progress >= Scale THEN Scale
    ELSE IF curve_type = "linear" THEN progress
    ELSE IF curve_type = "exponential" THEN FPow(progress, strength)
    ELSE IF curve_type = "quadratic" THEN FPow(progress, 2)
    ELSE IF curve_type = "s_curve"
         THEN Logistic((progress - Scale \div 2) * strength * 2)
    ELSE progress

\* InputController.to_dac12 / to_dac12: x is clamped to [-clamp, clamp],
\* divided by clamp, mapped to [0,4095] with Python rounding and clamped.
\* The quotient x / clamp is kept exact: (x/clamp + 1) * 4095 / 2 is the
\* rational (x + clamp) * 4095 / (2 * clamp).
\* The quantizer with int() alone, which truncates, in place of
\* int(round()).
to_dac12_truncating(x, clamp) ==
    LET xc == Max2(-clamp, Min2(clamp, x))
    IN  Max2(0, Min2(4095, ((xc + clamp) * 4095) \div (2 * clamp)))

\* The quantizer with neither the input clamp nor the final integer clamp.
to_dac12_unclamped(x, clamp) == PyRound((x + clamp) * 4095, 2 * clamp)

to_dac12(x, clamp) ==
    LET xc == Max2(-clamp, Min2(clamp, x))
    IN  Max2(0, Min2(4095, PyRound((xc + clamp) * 4095, 2 * clamp)))


\* -------------------------------------------------------- configuration

\* Config.load_config: the default configuration of the GUI program.
\* Floats are fixed point (deadzone 0.02, expo 0.25, clamp 0.98, ramp 1.0 s).
DefaultConfig ==
    [update_hz              |-> 200,
     deadzone               |-> 200,
     expo                   |-> 2500,
     clamp                  |-> 9800,
     invert_throttle        |-> TRUE,
     invert_steering        |-> FALSE,
     swap_controls          |-> FALSE,
     grab_device            |-> TRUE,
     use_separate_pedals    |-> TRUE,
     pedal_mode             |-> "buttons",
     forward_pedal_codes    |-> {BTN_TR, BTN_TRIGGER},
     reverse_pedal_codes    |-> {BTN_TL, BTN_THUMB},
     combined_axis_code     |-> ABS_Z,
     steering_codes         |-> {ABS_X, ABS_RX},
     throttle_codes         |-> {ABS_Y, ABS_RY},
     steering_trim          |-> 0,
     throttle_trim          |-> 0,
     analog_pedal_feel      |-> TRUE,
     throttle_ramp_duration |-> Scale,
     acceleration_curve     |-> "exponential",
     curve_strength         |-> 2]

Channels == {"steering", "throttle"}

\* Config.load_config / load_config with a configuration file present: the
\* defaults, overwritten by every key of the file, values taken as they come.
load_config(defaults, file) ==
    [k \in DOMAIN defaults \cup DOMAIN file |->
        IF k \in DOMAIN file THEN file[k] ELSE defaults[k]]

\* ----------------------------------------------------------------- state

VARIABLES
    program,        \* "gui" (t80_gui.py) or "cli" (t80_to_tqi.py)
    config,         \* the active configuration
    now,            \* time.time(), in clock units
    device,         \* input device handle: "none" | "open"
    grabbed,        \* exclusive access to the input device is held
    i2c_available,  \* the bus was opened at construction
    bus_open,       \* the bus handle is open
    running,        \* InputController.running
    thread,         \* InputController.thread: latest loop thread (0 = None)
    thread_pc,      \* per loop thread (thread 1 in the standalone program): position
    last_update,    \* per loop thread: input_loop's last_update / main's last
    main_todo,      \* GUI main thread: steps left of the handler in progress
    join_t0,        \* clock value at which the pending join() started
    closed,         \* the GUI window has been destroyed
    loop_error,     \* exception that ended the loop ("none" if none)
    ax_min, ax_max, ax_val,
    button_states,
    button_press_start_time,
    steering_filter, throttle_filter, filter_index,
    processed_values,
    forward_pressed, reverse_pressed,
                    \* the last tick's locals: the button states it read
    throttle_norm,  \* the last tick's local: output of the pedal state machine
    ticks,          \* completed runs of the pipeline since the loop started
    dac,            \* per channel: last code latched and the call site it came from
    centred,        \* channels that have latched the mid-scale code
    bus_log,        \* the write() calls of the most recent operation that wrote
    binding,        \* binding-mode attributes of T80GUI and of InputController
    call            \* a direct call of a pure helper: its arguments and result

vars ==
    <<program, config, now, device, grabbed, i2c_available, bus_open, running,
      thread, thread_pc, last_update, main_todo, join_t0, closed, loop_error,
      ax_min, ax_max, ax_val, button_states, button_press_start_time,
      steering_filter, throttle_filter, filter_index, processed_values,
      forward_pressed, reverse_pressed, throttle_norm, ticks, dac, centred,
      bus_log, binding, call>>

\* Groups used in UNCHANGED clauses.
inputVars == <<ax_min, ax_max, ax_val, button_states>>

pipeVars ==
    <<button_press_start_time, steering_filter, throttle_filter, filter_index,
      processed_values, forward_pressed, reverse_pressed, throttle_norm, ticks>>

busVars == <<dac, centred, bus_log>>

\* ------------------------------------------------------------ bus writer

\* MCP4725.write with the raw write issued unconditionally after the framed
\* one (a fallback that is not confined to the except branch).
MCP4725_write_always_raw(ch, src, arg, framedOk, rawOk) ==
    LET val == Max2(0, Min2(4095, arg))
        hi  == (val \div 16) % 256
        lo  == (val % 16) * 16
    IN  [ch |-> ch, src |-> src, arg |-> arg, val |-> val,
         ops    |-> <<[kind |-> "write_i2c_block_data", cmd |-> CmdWriteDac,
                       data |-> <<hi, lo>>, ok |-> framedOk],
                      [kind |-> "i2c_rdwr", cmd |-> None,
                       data |-> <<hi, lo>>, ok |-> rawOk]>>,
         raised |-> ~rawOk]

\* MCP4725.write sending the low byte of the code as it is, not its low
\* nibble moved to the top of the byte.
MCP4725_write_low_byte(ch, src, arg, framedOk, rawOk) ==
    LET val == Max2(0, Min2(4095, arg))
        hi  == (val \div 16) % 256
        lo  == val % 256
        framed == [kind |-> "write_i2c_block_data", cmd |-> CmdWriteDac,
                   data |-> <<hi, lo>>, ok |-> framedOk]
        raw    == [kind |-> "i2c_rdwr", cmd |-> None,
                   data |-> <<hi, lo>>, ok |-> rawOk]
    IN  [ch |-> ch, src |-> src, arg |-> arg, val |-> val,
         ops    |-> IF framedOk THEN <<framed>> ELSE <<framed, raw>>,
         raised |-> ~framedOk /\ ~rawOk]

\* MCP4725.write(val) on channel ch, issued by call site src, when the bus
\* answers the framed block write with framedOk and the raw write with
\* rawOk.  The result is the record of the call: the clamped value, the two
\* payload bytes, the bus transactions issued in order, and whether the call
\* raised.
MCP4725_write(ch, src, arg, framedOk, rawOk) ==
    LET val == Max2(0, Min2(4095, arg))
        hi  == (val \div 16) % 256
        lo  == (val % 16) * 16
        framed == [kind |-> "write_i2c_block_data", cmd |-> CmdWriteDac,
                   data |-> <<hi, lo>>, ok |-> framedOk]
        raw    == [kind |-> "i2c_rdwr", cmd |-> None,
                   data |-> <<hi, lo>>, ok |-> rawOk]
    IN  [ch |-> ch, src |-> src, arg |-> arg, val |-> val,
         ops    |-> IF framedOk THEN <<framed>> ELSE <<framed, raw>>,
         raised |-> ~framedOk /\ ~rawOk]

\* The code a channel's DAC latches from a transaction's payload.
Decode(data) == data[1] * 16 + data[2] \div 16

\* The DAC registers after a sequence of write() calls.
RECURSIVE Latch(_, _)
Latch(d, calls) ==
    IF calls = <<>> THEN d
    ELSE LET c  == Head(calls)
             op == c.ops[Len(c.ops)]
         IN  Latch(IF op.ok
                   THEN [d EXCEPT ![c.ch] = [code |-> Decode(op.data), src |-> c.src]]
                   ELSE d,
                   Tail(calls))

\* Two writes in one try block: the throttle write is reached only if the
\* steering write did not raise.
WritePair(src, s_arg, t_arg, o) ==
    LET w1 == MCP4725_write("steering", src, s_arg, o[1], o[2])
        w2 == MCP4725_write("throttle", src, t_arg, o[3], o[4])
    IN  IF w1.raised THEN <<w1>> ELSE <<w1, w2>>

\* Outcomes the bus can give to the (up to four) transactions of a pair:
\* o[1], o[3] the framed writes, o[2], o[4] the raw writes.  An outcome of a
\* transaction that is never issued is fixed to TRUE.
BusOutcomes ==
    {o \in [1..4 -> BOOLEAN] :
        /\ o[1] => o[2]
        /\ o[3] => o[4]
        /\ (~o[1] /\ ~o[2]) => (o[3] /\ o[4])}

\* Channels on which one of the calls latched the mid-scale code.
CentredBy(calls) ==
    {calls[i].ch : i \in {j \in 1..Len(calls) :
                            /\ calls[j].ops[Len(calls[j].ops)].ok
                            /\ Decode(calls[j].ops[Len(calls[j].ops)].data) = center}}

\* ------------------------------------------------- pedal state machine

\* time.time() differences are seconds: clock units -> fixed-point seconds.
Seconds(units) == FDiv(units * Scale, ClockHz)

\* The ramp value of a pedal held since s0, at time t.
Ramp(cfg, s0, t) ==
    apply_acceleration_curve(
        Min2(Scale, FDiv(Seconds(t - s0) * Scale, cfg.throttle_ramp_duration)),
        cfg.acceleration_curve, cfg.curve_strength)

\* The buttons branch with the press-start timestamp taken anew at every
\* tick instead of once per press.
PedalButtons_restamp(cfg, fwd, rev, starts, t) ==
    IF fwd /\ ~rev
    THEN [throttle_norm |-> Ramp(cfg, t, t),
          starts |-> [starts EXCEPT !.forward = t]]
    ELSE IF rev /\ ~fwd
    THEN [throttle_norm |-> -Ramp(cfg, t, t),
          starts |-> [starts EXCEPT !.reverse = t]]
    ELSE [throttle_norm |-> 0,
          starts |-> [forward |-> None, reverse |-> None]]

\* The buttons branch without the interlock: forward wins whenever it is
\* pressed, whatever reverse does.
PedalButtons_no_interlock(cfg, fwd, rev, starts, t) ==
    IF fwd
    THEN LET s0 == IF starts.forward = None THEN t ELSE starts.forward
         IN  [throttle_norm |-> Ramp(cfg, s0, t),
              starts |-> [starts EXCEPT !.forward = s0]]
    ELSE IF rev
    THEN LET s0 == IF starts.reverse = None THEN t ELSE starts.reverse
         IN  [throttle_norm |-> -Ramp(cfg, s0, t),
              starts |-> [starts EXCEPT !.reverse = s0]]
    ELSE [throttle_norm |-> 0,
          starts |-> [forward |-> None, reverse |-> None]]

\* The buttons branch with a release that keeps the ramp value of the tick
\* and only clears the timestamps.
PedalButtons_residual(cfg, fwd, rev, starts, t) ==
    IF fwd /\ ~rev
    THEN LET s0 == IF starts.forward = None THEN t ELSE starts.forward
         IN  [throttle_norm |-> Ramp(cfg, s0, t),
              starts |-> [starts EXCEPT !.forward = s0]]
    ELSE IF rev /\ ~fwd
    THEN LET s0 == IF starts.reverse = None THEN t ELSE starts.reverse
         IN  [throttle_norm |-> -Ramp(cfg, s0, t),
              starts |-> [starts EXCEPT !.reverse = s0]]
    ELSE [throttle_norm |-> IF starts.forward # None
                            THEN Ramp(cfg, starts.forward, t) ELSE 0,
          starts |-> [forward |-> None, reverse |-> None]]

\* process_inputs, buttons branch (t80_gui.py): throttle from the two
\* button states and the press-start timestamps at time t.
PedalButtons(cfg, fwd, rev, starts, t) ==
    IF fwd /\ ~rev
    THEN LET s0 == IF starts.forward = None THEN t ELSE starts.forward
             press_duration  == Seconds(t - s0)
             linear_progress ==
                 Min2(Scale, FDiv(press_duration * Scale, cfg.throttle_ramp_duration))
         IN  [throttle_norm |-> apply_acceleration_curve(linear_progress,
                                    cfg.acceleration_curve, cfg.curve_strength),
              starts |-> [starts EXCEPT !.forward = s0]]
    ELSE IF rev /\ ~fwd
    THEN LET s0 == IF starts.reverse = None THEN t ELSE starts.reverse
             press_duration  == Seconds(t - s0)
             linear_progress ==
                 Min2(Scale, FDiv(press_duration * Scale, cfg.throttle_ramp_duration))
         IN  [throttle_norm |-> -apply_acceleration_curve(linear_progress,
                                    cfg.acceleration_curve, cfg.curve_strength),
              starts |-> [starts EXCEPT !.reverse = s0]]
    ELSE [throttle_norm |-> 0,
          starts |-> [forward |-> None, reverse |-> None]]

\* A dict lookup d[k] raises KeyError exactly when k is not a key.
HasKey(d, k) == k \in DOMAIN d

\* process_inputs raises before reaching the DAC section: a KeyError of an
\* axis lookup the selected pedal mode performs.
ProcessRaises(cfg, vmin, vmax, val) ==
    \/ ~HasKey(val, "steering") \/ ~HasKey(vmin, "steering") \/ ~HasKey(vmax, "steering")
    \/ /\ cfg.use_separate_pedals
       /\ cfg.pedal_mode = "split_axis"
       /\ \E d \in {val, vmin, vmax} : ~HasKey(d, "combined_axis")
    \/ /\ cfg.use_separate_pedals
       /\ cfg.pedal_mode \notin {"buttons", "split_axis"}
       /\ \E d \in {val, vmin, vmax} : ~HasKey(d, "forward") \/ ~HasKey(d, "reverse")
    \/ /\ ~cfg.use_separate_pedals
       /\ \E d \in {val, vmin, vmax} : ~HasKey(d, "throttle")

Norm(vmin, vmax, val, axis) == normalize(val[axis], vmin[axis], vmax[axis])

\* The trim step without its clamp.
ApplyTrim_unclamped(x, trim) == x + trim

\* The trim step: add the offset and clamp to [-1, 1].
ApplyTrim(x, trim) == Max2(-Scale, Min2(Scale, x + trim))

\* process_inputs up to the shaping (the normalisations and the pedal state
\* machine): the locals it leaves for the rest of the run.
PedalStage(cfg, vmin, vmax, val, buttons, starts, t) ==
    LET buttons_mode  == cfg.use_separate_pedals /\ cfg.pedal_mode = "buttons"
        pedal == IF buttons_mode
                 THEN PedalButtons(cfg, buttons.forward_pedal, buttons.reverse_pedal,
                                   starts, t)
                 ELSE [throttle_norm |->
                         IF ~cfg.use_separate_pedals
                         THEN Norm(vmin, vmax, val, "throttle")
                         ELSE IF cfg.pedal_mode = "split_axis"
                         THEN Norm(vmin, vmax, val, "combined_axis")
                         ELSE Norm(vmin, vmax, val, "forward")
                              - Norm(vmin, vmax, val, "reverse"),
                       starts |-> starts]
    IN  [steering_norm   |-> Norm(vmin, vmax, val, "steering"),
         throttle_norm   |-> pedal.throttle_norm,
         starts          |-> pedal.starts,
         forward_pressed |-> IF buttons_mode THEN buttons.forward_pedal
                                 ELSE forward_pressed,
         reverse_pressed |-> IF buttons_mode THEN buttons.reverse_pedal
                                 ELSE reverse_pressed]

\* process_inputs from "Apply deadzone and expo" to the swap, on the locals
\* p of the first part.
ShapeStage(cfg, p) ==
    LET buttons_mode  == cfg.use_separate_pedals /\ cfg.pedal_mode = "buttons"
        steering_shaped == apply_expo(apply_deadzone(p.steering_norm, cfg.deadzone),
                                      cfg.expo)
        throttle_shaped ==
            IF buttons_mode /\ cfg.analog_pedal_feel
            THEN apply_expo(p.throttle_norm, FMul(cfg.expo, Scale \div 2))
            ELSE IF buttons_mode
            THEN p.throttle_norm
            ELSE apply_expo(apply_deadzone(p.throttle_norm, cfg.deadzone),
                            cfg.expo)
        steering_inv == IF cfg.invert_steering THEN -steering_shaped ELSE steering_shaped
        throttle_inv == IF cfg.invert_throttle THEN -throttle_shaped ELSE throttle_shaped
        steering_processed == ApplyTrim(steering_inv, cfg.steering_trim)
        throttle_processed == ApplyTrim(throttle_inv, cfg.throttle_trim)
    IN  [forward_pressed |-> p.forward_pressed,
         reverse_pressed |-> p.reverse_pressed,
         throttle_norm |-> p.throttle_norm,
         starts        |-> p.starts,
         processed     |-> [steering |-> steering_processed,
                            throttle |-> throttle_processed],
         steering_out  |-> IF cfg.swap_controls THEN throttle_processed
                           ELSE steering_processed,
         throttle_out  |-> IF cfg.swap_controls THEN steering_processed
                           ELSE throttle_processed]

\* A run that carries the throttle over: half of the previous tick's
\* throttle is mixed into the new one.
process_inputs_carry(cfg, vmin, vmax, val, buttons, starts, t) ==
    LET r == ShapeStage(cfg, PedalStage(cfg, vmin, vmax, val, buttons, starts, t))
        t_norm == FDiv(r.throttle_norm + throttle_norm, 2)
        t_proc == FDiv(r.processed.throttle + processed_values.throttle, 2)
    IN  [r EXCEPT !.throttle_norm = t_norm,
                  !.processed = [@ EXCEPT !.throttle = t_proc],
                  !.throttle_out = IF cfg.swap_controls THEN @ ELSE t_proc,
                  !.steering_out = IF cfg.swap_controls THEN t_proc ELSE @]

\* InputController.process_inputs up to the DAC section.
process_inputs(cfg, vmin, vmax, val, buttons, starts, t) ==
    ShapeStage(cfg, PedalStage(cfg, vmin, vmax, val, buttons, starts, t))

\* A push that ignores the index and always overwrites the first slot.
Push_stuck(filter, index, value) == [filter EXCEPT ![1] = value]

\* Output smoothing: write the sample at filter_index modulo the window.
Push(filter, index, value) == [filter EXCEPT ![(index % Len(filter)) + 1] = value]

\* Arithmetic mean of all slots of a filter.
Mean(filter) == FDiv(SeqSum(filter), Len(filter))


\* InputController.__init__ leaves its binding attributes off; T80GUI has
\* none until start_binding or cancel_binding creates them.
NoBinding ==
    [gui_mode |-> FALSE, gui_target |-> "", mode |-> FALSE, target |-> "",
     callback |-> FALSE]

\* No helper is being called directly.
NoCall == [fn |-> "", args |-> <<>>, result |-> <<>>]

\* ------------------------------------------------------------- inputs

\* Raw samples an axis of the attached device reports.
RawVals == {-100, 100}

Threads == 1..MaxThreads

Alive(th) == thread_pc[th] \notin {"none", "dead"}

\* ------------------------------------------------ GUI program: t80_gui.py

\* InputController.__init__ (the bus may fail to open) with a configuration
\* from cfgs.
Construct(cfgs) ==
    /\ program = "gui"
    /\ config \in cfgs
    /\ now = 0
    /\ device = "none"
    /\ grabbed = FALSE
    /\ i2c_available \in BOOLEAN
    /\ bus_open = i2c_available
    /\ running = FALSE
    /\ thread = 0
    /\ thread_pc = [th \in Threads |-> "none"]
    /\ last_update = [th \in Threads |-> 0]
    /\ main_todo = <<>>
    /\ join_t0 = 0
    /\ closed = FALSE
    /\ loop_error = "none"
    /\ ax_min = [steering |-> SentinelMin, throttle |-> SentinelMin,
                 combined_axis |-> SentinelMin]
    /\ ax_max = [steering |-> SentinelMax, throttle |-> SentinelMax,
                 combined_axis |-> SentinelMax]
    /\ ax_val = [steering |-> 0, throttle |-> 0, combined_axis |-> 0]
    /\ button_states = [forward_pedal |-> FALSE, reverse_pedal |-> FALSE]
    /\ button_press_start_time = [forward |-> None, reverse |-> None]
    /\ steering_filter = [i \in 1..SteeringWindow |-> 0]
    /\ throttle_filter = [i \in 1..ThrottleWindow |-> 0]
    /\ filter_index = 0
    /\ processed_values = [steering |-> 0, throttle |-> 0]
    /\ forward_pressed = FALSE
    /\ reverse_pressed = FALSE
    /\ throttle_norm = 0
    /\ ticks = 0
    /\ dac = [ch \in Channels |-> [code |-> None, src |-> "none"]]
    /\ centred = {}
    /\ bus_log = <<>>
    /\ binding = NoBinding

\* The GUI program after construction: no helper is called directly.
GuiInit(cfgs) == Construct(cfgs) /\ call = NoCall

\* The environment's clock, while program prog runs.
Advance(prog, horizon) ==
    /\ program = prog
    /\ now < horizon
    /\ now' = now + 1
    /\ UNCHANGED <<program, binding, call,
                   config, device, grabbed, i2c_available, bus_open,
                   running, thread, thread_pc, last_update, main_todo, join_t0,
                   closed, loop_error, inputVars, pipeVars, busVars>>

GuiIdle == program = "gui" /\ ~closed /\ main_todo = <<>>

\* InputController.connect_device: open the device, then grab it.  The grab
\* raising leaves self.device set and returns failure.
connect_device(outcome) ==
    /\ GuiIdle
    /\ \/ outcome = "open_failed" /\ UNCHANGED <<device, grabbed>>
       \/ outcome = "grab_failed" /\ config.grab_device
          /\ device' = "open" /\ grabbed' = FALSE
       \/ outcome = "ok" /\ device' = "open" /\ grabbed' = config.grab_device
    /\ UNCHANGED <<program, binding, call,
                   config, now, i2c_available, bus_open, running, thread,
                   thread_pc, last_update, main_todo, join_t0, closed, loop_error,
                   inputVars, pipeVars, busVars>>

\* InputController.start, reached from T80GUI.start_controller.
start ==
    /\ GuiIdle
    /\ device # "none" /\ ~running
    /\ \E th \in Threads :
        /\ ~Alive(th)
        /\ \A k \in Threads : k < th => Alive(k)
        /\ thread' = th
        /\ thread_pc' = [thread_pc EXCEPT ![th] = "entry"]
    /\ running' = TRUE
    /\ UNCHANGED <<program, binding, call,
                   config, now, device, grabbed, i2c_available, bus_open,
                   last_update, main_todo, join_t0, closed, loop_error,
                   inputVars, pipeVars, busVars>>

\* InputController.stop: clear the flag, then join the thread (1 s timeout).
StopThen(rest) ==
    /\ running' = FALSE
    /\ main_todo' = <<"join">> \o rest
    /\ join_t0' = now

\* T80GUI.stop_controller.
stop_controller ==
    /\ GuiIdle
    /\ StopThen(<<>>)
    /\ UNCHANGED <<program, binding, call,
                   config, now, device, grabbed, i2c_available, bus_open,
                   thread, thread_pc, last_update, closed, loop_error,
                   inputVars, pipeVars, busVars>>

\* InputController.disconnect_device: stop(), then release the device.
disconnect_device ==
    /\ GuiIdle
    /\ StopThen(<<"release">>)
    /\ UNCHANGED <<program, binding, call,
                   config, now, device, grabbed, i2c_available, bus_open,
                   thread, thread_pc, last_update, closed, loop_error,
                   inputVars, pipeVars, busVars>>

\* T80GUI.on_closing: stop(), center_outputs(), disconnect_device(),
\* save_config(), destroy().
on_closing ==
    /\ GuiIdle
    /\ StopThen(<<"center", "stop", "release", "destroy">>)
    /\ UNCHANGED <<program, binding, call,
                   config, now, device, grabbed, i2c_available, bus_open,
                   thread, thread_pc, last_update, closed, loop_error,
                   inputVars, pipeVars, busVars>>

\* thread.join(timeout=1.0) returns: no thread, the thread has ended, or one
\* second has passed.
MainJoin ==
    /\ program = "gui" /\ main_todo # <<>> /\ Head(main_todo) = "join"
    /\ \/ thread = 0
       \/ thread # 0 /\ ~Alive(thread)
       \/ thread # 0 /\ Alive(thread) /\ Seconds(now - join_t0) >= Scale
    /\ main_todo' = Tail(main_todo)
    /\ UNCHANGED <<program, binding, call,
                   config, now, device, grabbed, i2c_available, bus_open,
                   running, thread, thread_pc, last_update, join_t0, closed,
                   loop_error, inputVars, pipeVars, busVars>>

\* The stop() call inside disconnect_device when on_closing reaches it.
MainStop ==
    /\ program = "gui" /\ main_todo # <<>> /\ Head(main_todo) = "stop"
    /\ StopThen(Tail(main_todo))
    /\ UNCHANGED <<program, binding, call,
                   config, now, device, grabbed, i2c_available, bus_open,
                   thread, thread_pc, last_update, closed, loop_error,
                   inputVars, pipeVars, busVars>>

\* disconnect_device after stop(): ungrab if configured, close, forget.
MainRelease ==
    /\ program = "gui" /\ main_todo # <<>> /\ Head(main_todo) = "release"
    /\ device' = "none"
    /\ grabbed' = IF device # "none" THEN FALSE ELSE grabbed
    /\ main_todo' = Tail(main_todo)
    /\ UNCHANGED <<program, binding, call,
                   config, now, i2c_available, bus_open, running, thread,
                   thread_pc, last_update, join_t0, closed, loop_error,
                   inputVars, pipeVars, busVars>>

\* save_config() and root.destroy(): the application ends.
MainDestroy ==
    /\ program = "gui" /\ main_todo # <<>> /\ Head(main_todo) = "destroy"
    /\ closed' = TRUE
    /\ main_todo' = Tail(main_todo)
    /\ UNCHANGED <<program, binding, call,
                   config, now, device, grabbed, i2c_available, bus_open,
                   running, thread, thread_pc, last_update, join_t0, loop_error,
                   inputVars, pipeVars, busVars>>

\* InputController.center_outputs: both writes in one try block, skipped
\* when the bus is not available.
CenterWrites(outcomes) ==
    IF i2c_available
    THEN \E o \in outcomes :
            LET calls == WritePair("center", center, center, o)
            IN  /\ dac' = Latch(dac, calls)
                /\ centred' = centred \cup CentredBy(calls)
                /\ bus_log' = calls
    ELSE UNCHANGED busVars

\* T80GUI.center_outputs (the button).
center_outputs(outcomes) ==
    /\ GuiIdle
    /\ CenterWrites(outcomes)
    /\ UNCHANGED <<program, binding, call,
                   config, now, device, grabbed, i2c_available, bus_open,
                   running, thread, thread_pc, last_update, main_todo, join_t0,
                   closed, loop_error, inputVars, pipeVars>>

\* center_outputs as a step of on_closing.
MainCenter(outcomes) ==
    /\ program = "gui" /\ main_todo # <<>> /\ Head(main_todo) = "center"
    /\ CenterWrites(outcomes)
    /\ main_todo' = Tail(main_todo)
    /\ UNCHANGED <<program, binding, call,
                   config, now, device, grabbed, i2c_available, bus_open,
                   running, thread, thread_pc, last_update, join_t0,
                   closed, loop_error, inputVars, pipeVars>>


\* T80GUI.start_binding(target): refused without a device; sets the binding
\* attributes of the T80GUI object (the controller's are not touched).
start_binding(target) ==
    /\ GuiIdle
    /\ device # "none"
    /\ binding' = [binding EXCEPT !.gui_mode = TRUE, !.gui_target = target]
    /\ UNCHANGED <<program, call, config, now, device, grabbed, i2c_available,
                   bus_open, running, thread, thread_pc, last_update, main_todo,
                   join_t0, closed, loop_error, inputVars, pipeVars, busVars>>

\* T80GUI.cancel_binding (its button is enabled by start_binding).
cancel_binding ==
    /\ GuiIdle
    /\ binding.gui_mode
    /\ binding' = [binding EXCEPT !.gui_mode = FALSE, !.gui_target = ""]
    /\ UNCHANGED <<program, call, config, now, device, grabbed, i2c_available,
                   bus_open, running, thread, thread_pc, last_update, main_todo,
                   join_t0, closed, loop_error, inputVars, pipeVars, busVars>>

\* T80GUI.reset_calibration, confirmed: its first statement replaces the
\* controller's ax_min by a dict with the keys steering, throttle, forward
\* and reverse; the second statement follows as a step of its own.
reset_calibration ==
    /\ GuiIdle
    /\ ax_min' = [k \in {"steering", "throttle", "forward", "reverse"} |-> SentinelMin]
    /\ main_todo' = <<"reset_max">>
    /\ UNCHANGED <<program, binding, call, config, now, device, grabbed,
                   i2c_available, bus_open, running, thread, thread_pc,
                   last_update, join_t0, closed, loop_error, ax_max, ax_val,
                   button_states, pipeVars, busVars>>

\* The second statement of reset_calibration: ax_max is replaced likewise.
MainResetMax ==
    /\ program = "gui" /\ main_todo # <<>> /\ Head(main_todo) = "reset_max"
    /\ ax_max' = [k \in {"steering", "throttle", "forward", "reverse"} |-> SentinelMax]
    /\ main_todo' = Tail(main_todo)
    /\ UNCHANGED <<program, binding, call, config, now, device, grabbed,
                   i2c_available, bus_open, running, thread, thread_pc,
                   last_update, join_t0, closed, loop_error, ax_min, ax_val,
                   button_states, pipeVars, busVars>>

\* T80GUI.update_steering_trim: the slider value goes into the
\* configuration object the controller shares.
update_steering_trim(value) ==
    /\ GuiIdle
    /\ config' = [config EXCEPT !.steering_trim = value]
    /\ UNCHANGED <<program, binding, call, now, device, grabbed, i2c_available,
                   bus_open, running, thread, thread_pc, last_update, main_todo,
                   join_t0, closed, loop_error, inputVars, pipeVars, busVars>>

\* T80GUI.save_configuration: the options of the Configuration tab are
\* copied from the form into the shared configuration object.
save_configuration(form) ==
    /\ GuiIdle
    /\ config' = [config EXCEPT !.update_hz = form.update_hz,
                                !.deadzone = form.deadzone,
                                !.expo = form.expo,
                                !.invert_steering = form.invert_steering,
                                !.invert_throttle = form.invert_throttle,
                                !.pedal_mode = form.pedal_mode,
                                !.steering_trim = form.steering_trim,
                                !.throttle_trim = form.throttle_trim,
                                !.analog_pedal_feel = form.analog_pedal_feel]
    /\ UNCHANGED <<program, binding, call, now, device, grabbed, i2c_available,
                   bus_open, running, thread, thread_pc, last_update, main_todo,
                   join_t0, closed, loop_error, inputVars, pipeVars, busVars>>

\* ------------------------------------------------------ auto-calibration

\* The update with the minimum taken against the axis's previous sample
\* instead of the smallest one seen so far.
Calibrate_against_last(vmin, vmax, val, axis, v) ==
    [ax_min |-> [vmin EXCEPT ![axis] = Min2(val[axis], v)],
     ax_max |-> [vmax EXCEPT ![axis] = Max2(@, v)],
     ax_val |-> [val EXCEPT ![axis] = v]]

\* The update with an upper bound that creeps up by one at every sample.
Calibrate_creeping(vmin, vmax, val, axis, v) ==
    [ax_min |-> [vmin EXCEPT ![axis] = Min2(@, v)],
     ax_max |-> [vmax EXCEPT ![axis] = Max2(@, v) + 1],
     ax_val |-> [val EXCEPT ![axis] = v]]

\* The update with a lower bound that follows the sample instead of keeping
\* the smallest one.
Calibrate_min_follows(vmin, vmax, val, axis, v) ==
    [ax_min |-> [vmin EXCEPT ![axis] = v],
     ax_max |-> [vmax EXCEPT ![axis] = Max2(@, v)],
     ax_val |-> [val EXCEPT ![axis] = v]]

\* "Update min/max for auto-calibration": a sample v of an axis widens the
\* axis's bounds and becomes its last value.
Calibrate(vmin, vmax, val, axis, v) ==
    [ax_min |-> [vmin EXCEPT ![axis] = Min2(@, v)],
     ax_max |-> [vmax EXCEPT ![axis] = Max2(@, v)],
     ax_val |-> [val EXCEPT ![axis] = v]]

\* -------------------------------------------- GUI loop thread: input_loop

\* The axis an EV_ABS code belongs to ("" when none).
AxisOf(cfg, code) ==
    IF code \in cfg.steering_codes THEN "steering"
    ELSE IF code = cfg.combined_axis_code THEN "combined_axis"
    ELSE IF code \in cfg.throttle_codes THEN "throttle"
    ELSE ""

\* A gate that lets every pass of the loop through.
Due_every_pass(th) == last_update[th] <= now

\* The tick gate: now - last_update >= 1.0 / update_hz.  A negative rate
\* makes the period negative, so every pass is due.
Due(th) ==
    IF config.update_hz > 0
    THEN (now - last_update[th]) * config.update_hz >= ClockHz
    ELSE TRUE

\* input_loop up to the while: return without a device, compute the period
\* (outside the try block: a zero rate ends the thread), take the time.
LoopEntry(th) ==
    /\ program = "gui" /\ thread_pc[th] = "entry"
    /\ IF device = "none"
       THEN /\ thread_pc' = [thread_pc EXCEPT ![th] = "dead"]
            /\ UNCHANGED <<last_update, loop_error>>
       ELSE IF config.update_hz = 0
       THEN /\ thread_pc' = [thread_pc EXCEPT ![th] = "dead"]
            /\ loop_error' = "ZeroDivisionError"
            /\ UNCHANGED last_update
       ELSE /\ thread_pc' = [thread_pc EXCEPT ![th] = "while"]
            /\ last_update' = [last_update EXCEPT ![th] = now]
            /\ UNCHANGED loop_error
    /\ UNCHANGED <<program, binding, call,
                   config, now, device, grabbed, i2c_available, bus_open,
                   running, thread, main_todo, join_t0, closed,
                   inputVars, pipeVars, busVars>>

\* A loop that never looks at the flag again.
LoopWhile_deaf(th) ==
    /\ program = "gui" /\ thread_pc[th] = "while"
    /\ thread_pc' = [thread_pc EXCEPT ![th] = "select"]
    /\ UNCHANGED <<program, binding, call,
                   config, now, device, grabbed, i2c_available, bus_open,
                   running, thread, last_update, main_todo, join_t0, closed,
                   loop_error, inputVars, pipeVars, busVars>>

\* while self.running
LoopWhile(th) ==
    /\ program = "gui" /\ thread_pc[th] = "while"
    /\ thread_pc' = [thread_pc EXCEPT ![th] = IF running THEN "select" ELSE "dead"]
    /\ UNCHANGED <<program, binding, call,
                   config, now, device, grabbed, i2c_available, bus_open,
                   running, thread, last_update, main_todo, join_t0, closed,
                   loop_error, inputVars, pipeVars, busVars>>

\* The binding checks of input_loop: binding mode and a callback on the
\* controller, and an axis sample beyond the noise threshold or a key press.
Binds(e) ==
    /\ binding.mode /\ binding.callback
    /\ IF e.type = "EV_ABS" THEN Abs(e.value) > 1000 ELSE e.value # 0

\* T80GUI.on_binding_complete(target, code): the configuration with the
\* captured code as the only code of the target.
BoundConfig(cfg, target, code) ==
    IF target = "steering" THEN [cfg EXCEPT !.steering_codes = {code}]
    ELSE IF target = "forward" THEN [cfg EXCEPT !.forward_pedal_codes = {code}]
    ELSE IF target = "reverse" THEN [cfg EXCEPT !.reverse_pedal_codes = {code}]
    ELSE IF target = "throttle" THEN [cfg EXCEPT !.throttle_codes = {code}]
    ELSE cfg

\* One event of the batch device.read() returned.  In binding mode the
\* event goes to the callback (T80GUI.on_binding_complete) and is skipped.
LoopEvent(th, e) ==
    /\ program = "gui" /\ thread_pc[th] \in {"select", "read"}
    /\ device = "open"
    /\ IF Binds(e)
       THEN /\ binding' = [binding EXCEPT !.gui_mode = FALSE, !.gui_target = ""]
            /\ config' = BoundConfig(config, binding.target, e.code)
            /\ thread_pc' = [thread_pc EXCEPT ![th] = "read"]
            /\ UNCHANGED <<inputVars, loop_error>>
       ELSE IF e.type = "EV_ABS"
       THEN LET axis == AxisOf(config, e.code)
            IN  IF axis = ""
                THEN /\ thread_pc' = [thread_pc EXCEPT ![th] = "read"]
                     /\ UNCHANGED <<inputVars, loop_error, binding, config>>
                ELSE IF ~HasKey(ax_min, axis) \/ ~HasKey(ax_max, axis)
                THEN /\ thread_pc' = [thread_pc EXCEPT ![th] = "dead"]
                     /\ loop_error' = "KeyError"
                     /\ UNCHANGED <<inputVars, binding, config>>
                ELSE /\ ax_min' = Calibrate(ax_min, ax_max, ax_val, axis, e.value).ax_min
                     /\ ax_max' = Calibrate(ax_min, ax_max, ax_val, axis, e.value).ax_max
                     /\ ax_val' = Calibrate(ax_min, ax_max, ax_val, axis, e.value).ax_val
                     /\ thread_pc' = [thread_pc EXCEPT ![th] = "read"]
                     /\ UNCHANGED <<button_states, loop_error, binding, config>>
       ELSE /\ button_states' =
                IF e.code \in config.forward_pedal_codes
                THEN [button_states EXCEPT !.forward_pedal = (e.value # 0)]
                ELSE IF e.code \in config.reverse_pedal_codes
                THEN [button_states EXCEPT !.reverse_pedal = (e.value # 0)]
                ELSE button_states
            /\ thread_pc' = [thread_pc EXCEPT ![th] = "read"]
            /\ UNCHANGED <<ax_min, ax_max, ax_val, loop_error, binding, config>>
    /\ UNCHANGED <<program, call,
                   now, device, grabbed, i2c_available, bus_open,
                   running, thread, last_update, main_todo, join_t0, closed,
                   pipeVars, busVars>>

\* select() or device.read() raises (the device was unplugged, or the main
\* thread has set self.device to None): except Exception ends the loop.
LoopDeviceError(th) ==
    /\ program = "gui" /\ thread_pc[th] \in {"select", "read"}
    /\ thread_pc' = [thread_pc EXCEPT ![th] = "dead"]
    /\ loop_error' = IF device = "none" THEN "TypeError" ELSE "OSError"
    /\ UNCHANGED <<program, binding, call,
                   config, now, device, grabbed, i2c_available, bus_open,
                   running, thread, last_update, main_todo, join_t0, closed,
                   inputVars, pipeVars, busVars>>

\* Nothing (more) to read: on to the tick gate.
LoopNoEvents(th) ==
    /\ program = "gui" /\ thread_pc[th] \in {"select", "read"}
    /\ device = "open"
    /\ thread_pc' = [thread_pc EXCEPT ![th] = "gate"]
    /\ UNCHANGED <<program, binding, call,
                   config, now, device, grabbed, i2c_available, bus_open,
                   running, thread, last_update, main_todo, join_t0, closed,
                   loop_error, inputVars, pipeVars, busVars>>

\* The DAC section without the i2c_available test.
GuiDacSection_unguarded(r, outcomes) ==
    LET sf == Push(steering_filter, filter_index, r.steering_out)
        tf == Push(throttle_filter, filter_index, r.throttle_out)
    IN  /\ steering_filter' = sf
        /\ throttle_filter' = tf
        /\ filter_index' = filter_index + 1
        /\ \E o \in outcomes :
               LET calls == WritePair("pipeline",
                                      to_dac12(Mean(sf), config.clamp),
                                      to_dac12(Mean(tf), config.clamp), o)
               IN  /\ dac' = Latch(dac, calls)
                   /\ centred' = centred \cup CentredBy(calls)
                   /\ bus_log' = calls

\* The DAC section of process_inputs: push, average, quantize, write both
\* channels inside one try block.
GuiDacSection(r, outcomes) ==
    IF i2c_available
    THEN LET sf == Push(steering_filter, filter_index, r.steering_out)
             tf == Push(throttle_filter, filter_index, r.throttle_out)
         IN  /\ steering_filter' = sf
             /\ throttle_filter' = tf
             /\ filter_index' = filter_index + 1
             /\ \E o \in outcomes :
                    LET calls == WritePair("pipeline",
                                           to_dac12(Mean(sf), config.clamp),
                                           to_dac12(Mean(tf), config.clamp), o)
                    IN  /\ dac' = Latch(dac, calls)
                        /\ centred' = centred \cup CentredBy(calls)
                        /\ bus_log' = calls
    ELSE UNCHANGED <<steering_filter, throttle_filter, filter_index, busVars>>

\* A tick that consumes the pedal presses it has read: the button states
\* are cleared at the end of the run.
LoopTick_consuming(th, outcomes) ==
    /\ program = "gui" /\ thread_pc[th] = "gate"
    /\ Due(th)
    /\ last_update' = [last_update EXCEPT ![th] = now]
    /\ IF ProcessRaises(config, ax_min, ax_max, ax_val)
       THEN /\ thread_pc' = [thread_pc EXCEPT ![th] = "dead"]
            /\ loop_error' = "KeyError"
            /\ UNCHANGED <<button_states, pipeVars, busVars>>
       ELSE LET r == process_inputs(config, ax_min, ax_max, ax_val, button_states,
                                    button_press_start_time, now)
            IN  /\ button_press_start_time' = r.starts
                /\ forward_pressed' = r.forward_pressed
                /\ reverse_pressed' = r.reverse_pressed
                /\ throttle_norm' = r.throttle_norm
                /\ processed_values' = r.processed
                /\ ticks' = ticks + 1
                /\ GuiDacSection(r, outcomes)
                /\ button_states' = [forward_pedal |-> FALSE, reverse_pedal |-> FALSE]
                /\ thread_pc' = [thread_pc EXCEPT ![th] = "while"]
                /\ UNCHANGED loop_error
    /\ UNCHANGED <<program, binding, call,
                   config, now, device, grabbed, i2c_available, bus_open,
                   running, thread, main_todo, join_t0, closed,
                   ax_min, ax_max, ax_val>>

\* The gate is due: last_update = now; self.process_inputs().
LoopTick(th, outcomes) ==
    /\ program = "gui" /\ thread_pc[th] = "gate"
    /\ Due(th)
    /\ last_update' = [last_update EXCEPT ![th] = now]
    /\ IF ProcessRaises(config, ax_min, ax_max, ax_val)
       THEN /\ thread_pc' = [thread_pc EXCEPT ![th] = "dead"]
            /\ loop_error' = "KeyError"
            /\ UNCHANGED <<pipeVars, busVars>>
       ELSE LET r == process_inputs(config, ax_min, ax_max, ax_val, button_states,
                                    button_press_start_time, now)
            IN  /\ button_press_start_time' = r.starts
                /\ forward_pressed' = r.forward_pressed
                /\ reverse_pressed' = r.reverse_pressed
                /\ throttle_norm' = r.throttle_norm
                /\ processed_values' = r.processed
                /\ ticks' = ticks + 1
                /\ GuiDacSection(r, outcomes)
                /\ thread_pc' = [thread_pc EXCEPT ![th] = "while"]
                /\ UNCHANGED loop_error
    /\ UNCHANGED <<program, binding, call,
                   config, now, device, grabbed, i2c_available, bus_open,
                   running, thread, main_todo, join_t0, closed, inputVars>>

\* The gate is not due: sleep and loop.
LoopSkip(th) ==
    /\ program = "gui" /\ thread_pc[th] = "gate"
    /\ ~Due(th)
    /\ thread_pc' = [thread_pc EXCEPT ![th] = "while"]
    /\ UNCHANGED <<program, binding, call,
                   config, now, device, grabbed, i2c_available, bus_open,
                   running, thread, last_update, main_todo, join_t0, closed,
                   loop_error, inputVars, pipeVars, busVars>>

\* A due tick seen at the grain of the interpreter, first part: the gate
\* and process_inputs up to the shaping.  The locals stay with the thread.
LoopTickBegin(th) ==
    /\ program = "gui" /\ thread_pc[th] = "gate"
    /\ Due(th)
    /\ last_update' = [last_update EXCEPT ![th] = now]
    /\ IF ProcessRaises(config, ax_min, ax_max, ax_val)
       THEN /\ thread_pc' = [thread_pc EXCEPT ![th] = "dead"]
            /\ loop_error' = "KeyError"
            /\ UNCHANGED <<button_press_start_time, forward_pressed,
                           reverse_pressed, throttle_norm>>
       ELSE LET p == PedalStage(config, ax_min, ax_max, ax_val, button_states,
                                button_press_start_time, now)
            IN  /\ button_press_start_time' = p.starts
                /\ forward_pressed' = p.forward_pressed
                /\ reverse_pressed' = p.reverse_pressed
                /\ throttle_norm' = p.throttle_norm
                /\ thread_pc' = [thread_pc EXCEPT ![th] = "shape"]
                /\ UNCHANGED loop_error
    /\ UNCHANGED <<program, binding, call, config, now, device, grabbed,
                   i2c_available, bus_open, running, thread, main_todo, join_t0,
                   closed, inputVars, steering_filter, throttle_filter,
                   filter_index, processed_values, ticks, busVars>>

\* Second part: shaping, inversion, trim, swap and the DAC section, with the
\* configuration as it is now.
LoopTickEnd(th, outcomes) ==
    /\ program = "gui" /\ thread_pc[th] = "shape"
    /\ LET p == [steering_norm   |-> Norm(ax_min, ax_max, ax_val, "steering"),
                 throttle_norm   |-> throttle_norm,
                 starts          |-> button_press_start_time,
                 forward_pressed |-> forward_pressed,
                 reverse_pressed |-> reverse_pressed]
           r == ShapeStage(config, p)
       IN  /\ processed_values' = r.processed
           /\ ticks' = ticks + 1
           /\ GuiDacSection(r, outcomes)
           /\ thread_pc' = [thread_pc EXCEPT ![th] = "while"]
    /\ UNCHANGED <<program, binding, call, config, now, device, grabbed,
                   i2c_available, bus_open, running, thread, last_update,
                   main_todo, join_t0, closed, loop_error, inputVars,
                   button_press_start_time, forward_pressed, reverse_pressed,
                   throttle_norm>>

\* The GUI program with a device that emits the events of evs and a bus
\* that answers with the outcomes of outcomes.
GuiNext(evs, outcomes, horizon) ==
    \/ Advance("gui", horizon)
    \/ \E outcome \in {"ok", "open_failed", "grab_failed"} : connect_device(outcome)
    \/ start
    \/ stop_controller
    \/ disconnect_device
    \/ on_closing
    \/ center_outputs(outcomes)
    \/ MainJoin
    \/ MainStop
    \/ MainRelease
    \/ MainDestroy
    \/ MainCenter(outcomes)
    \/ \E th \in Threads :
        \/ LoopEntry(th)
        \/ LoopWhile(th)
        \/ \E e \in evs : LoopEvent(th, e)
        \/ LoopDeviceError(th)
        \/ LoopNoEvents(th)
        \/ LoopTick(th, outcomes)
        \/ LoopSkip(th)

\* One session of the GUI program with no further operator action: connect,
\* start, then the loop thread alone.
SessionNext(evs, outcomes, horizon) ==
    \/ Advance("gui", horizon)
    \/ connect_device("ok")
    \/ start
    \/ \E th \in Threads :
        \/ LoopEntry(th)
        \/ LoopWhile(th)
        \/ \E e \in evs : LoopEvent(th, e)
        \/ LoopNoEvents(th)
        \/ LoopTick(th, outcomes)
        \/ LoopSkip(th)

\* The GUI program under its default configuration, and with a steering
\* trim of 0.25.
GuiConfigs == {DefaultConfig, [DefaultConfig EXCEPT !.steering_trim = Scale \div 4]}

KeyEvents(codes) == [type : {"EV_KEY"}, code : codes, value : {0, 1}]

AbsEvents(codes, vals) == [type : {"EV_ABS"}, code : codes, value : vals]

\* Bus behaviours in which a write() either goes through at once or fails
\* on both paths, on the steering channel.
HardOutcomes == {o \in BusOutcomes : o[3] /\ (o[1] = o[2])}

\* The GUI program under operator control: every handler, a device with one
\* pedal button, a bus that may fail hard.
SpecGui ==
    GuiInit(GuiConfigs)
    /\ [][GuiNext(KeyEvents({BTN_TR}), HardOutcomes, MaxTimeGui)]_vars



\* ------------------------------------- standalone program: t80_to_tqi.py

\* load_config (t80_to_tqi.py): the default configuration, with the
\* controller type main() detected for the device.
CliDefaultConfig ==
    [update_hz              |-> 200,
     deadzone               |-> 200,
     expo                   |-> 2500,
     clamp                  |-> 9800,
     invert_throttle        |-> TRUE,
     invert_steering        |-> FALSE,
     grab_device            |-> TRUE,
     use_separate_pedals    |-> TRUE,
     pedal_mode             |-> "buttons",
     analog_pedal_feel      |-> TRUE,
     throttle_ramp_duration |-> Scale,
     acceleration_curve     |-> "exponential",
     curve_strength         |-> 2,
     xbox_use_triggers      |-> TRUE,
     xbox_raw_output        |-> FALSE,
     controller_type        |-> "t80"]

FORWARD_PEDAL_CODES == {BTN_TR, BTN_TRIGGER}

REVERSE_PEDAL_CODES == {BTN_TL, BTN_THUMB}

STEERING_CODES == {ABS_X, ABS_RX}

THROTTLE_CODES == {ABS_Y, ABS_RY, ABS_Z, ABS_RZ, ABS_THROTTLE, ABS_BRAKE}

\* main() before any device is opened, with a configuration from cfgs.
CliConstruct(cfgs) ==
    /\ program = "cli"
    /\ config \in cfgs
    /\ now = 0
    /\ device = "none"
    /\ grabbed = FALSE
    /\ i2c_available = FALSE
    /\ bus_open = FALSE
    /\ running = FALSE
    /\ thread = 1
    /\ thread_pc = [th \in Threads |-> IF th = 1 THEN "startup" ELSE "none"]
    /\ last_update = [th \in Threads |-> 0]
    /\ main_todo = <<>>
    /\ join_t0 = 0
    /\ closed = FALSE
    /\ loop_error = "none"
    /\ ax_min = [x |-> SentinelMin, y |-> SentinelMin, forward |-> 0, reverse |-> 0]
    /\ ax_max = [x |-> SentinelMax, y |-> SentinelMax,
                 forward |-> TriggerMax, reverse |-> TriggerMax]
    /\ ax_val = [x |-> 0, y |-> 0, forward |-> 0, reverse |-> 0]
    /\ button_states = [forward |-> FALSE, reverse |-> FALSE]
    /\ button_press_start_time = [forward |-> None, reverse |-> None]
    /\ steering_filter = [i \in 1..SteeringWindow |-> 0]
    /\ throttle_filter = [i \in 1..ThrottleWindow |-> 0]
    /\ filter_index = 0
    /\ processed_values = [steering |-> 0, throttle |-> 0]
    /\ forward_pressed = FALSE
    /\ reverse_pressed = FALSE
    /\ throttle_norm = 0
    /\ ticks = 0
    /\ dac = [ch \in Channels |-> [code |-> None, src |-> "none"]]
    /\ centred = {}
    /\ bus_log = <<>>
    /\ binding = NoBinding

\* The standalone program at its start: no helper is called directly.
CliInit(cfgs) == CliConstruct(cfgs) /\ call = NoCall

\* main() from SMBus(I2C_BUS) to the first select: open the bus, open and
\* grab the device, write the centre code to both channels (outside any
\* try), take the time.  An exception here ends the process.
cli_startup(outcome, o) ==
    /\ program = "cli" /\ thread_pc[1] = "startup"
    /\ IF outcome = "bus_failed"
       THEN /\ thread_pc' = [thread_pc EXCEPT ![1] = "crashed"]
            /\ loop_error' = "OSError"
            /\ UNCHANGED <<device, grabbed, i2c_available, bus_open, last_update,
                           busVars>>
       ELSE IF outcome = "open_failed"
       THEN /\ thread_pc' = [thread_pc EXCEPT ![1] = "crashed"]
            /\ loop_error' = "OSError"
            /\ i2c_available' = TRUE /\ bus_open' = TRUE
            /\ UNCHANGED <<device, grabbed, last_update, busVars>>
       ELSE LET calls == WritePair("center", center, center, o)
            IN  /\ i2c_available' = TRUE /\ bus_open' = TRUE
                /\ device' = "open"
                /\ grabbed' = (config.grab_device /\ outcome # "grab_failed")
                /\ dac' = Latch(dac, calls)
                /\ centred' = centred \cup CentredBy(calls)
                /\ bus_log' = calls
                /\ IF calls[Len(calls)].raised
                   THEN /\ thread_pc' = [thread_pc EXCEPT ![1] = "crashed"]
                        /\ loop_error' = "OSError"
                        /\ UNCHANGED last_update
                   ELSE IF config.update_hz = 0
                   THEN /\ thread_pc' = [thread_pc EXCEPT ![1] = "crashed"]
                        /\ loop_error' = "ZeroDivisionError"
                        /\ UNCHANGED last_update
                   ELSE /\ thread_pc' = [thread_pc EXCEPT ![1] = "select"]
                        /\ last_update' = [last_update EXCEPT ![1] = now]
                        /\ UNCHANGED loop_error
    /\ UNCHANGED <<program, binding, call,
                   config, now, running, thread, main_todo, join_t0,
                   closed, inputVars, pipeVars>>

\* The axis an EV_ABS code feeds in main() ("" when none).
CliAxisOf(cfg, code) ==
    IF cfg.controller_type = "xbox"
    THEN IF code = ABS_X THEN "x"
         ELSE IF code = ABS_RZ /\ cfg.xbox_use_triggers THEN "forward"
         ELSE IF code = ABS_Z /\ cfg.xbox_use_triggers THEN "reverse"
         ELSE IF code \in THROTTLE_CODES /\ ~cfg.xbox_use_triggers THEN "y"
         ELSE ""
    ELSE IF code \in STEERING_CODES THEN "x"
    ELSE IF code \in THROTTLE_CODES THEN "y"
    ELSE ""

CliButtonsMode(cfg) == cfg.use_separate_pedals /\ cfg.pedal_mode = "buttons"

\* One event of the batch dev.read() returned (T80 / generic key mapping;
\* pressed means value == 1).
cli_event(e) ==
    /\ program = "cli" /\ thread_pc[1] \in {"select", "read"}
    /\ thread_pc' = [thread_pc EXCEPT ![1] = "read"]
    /\ IF e.type = "EV_ABS"
       THEN LET ax == CliAxisOf(config, e.code)
            IN  IF ax = "" THEN UNCHANGED inputVars
                ELSE /\ ax_min' = Calibrate(ax_min, ax_max, ax_val, ax, e.value).ax_min
                     /\ ax_max' = Calibrate(ax_min, ax_max, ax_val, ax, e.value).ax_max
                     /\ ax_val' = Calibrate(ax_min, ax_max, ax_val, ax, e.value).ax_val
                     /\ UNCHANGED button_states
       ELSE /\ button_states' =
                IF ~CliButtonsMode(config) \/ config.controller_type = "xbox"
                THEN button_states
                ELSE IF e.code \in FORWARD_PEDAL_CODES
                THEN [button_states EXCEPT !.forward = (e.value = 1)]
                ELSE IF e.code \in REVERSE_PEDAL_CODES
                THEN [button_states EXCEPT !.reverse = (e.value = 1)]
                ELSE button_states
            /\ UNCHANGED <<ax_min, ax_max, ax_val>>
    /\ UNCHANGED <<program, binding, call,
                   config, now, device, grabbed, i2c_available, bus_open,
                   running, thread, last_update, main_todo, join_t0, closed,
                   loop_error, pipeVars, busVars>>

\* Nothing (more) to read: on to the tick gate.
cli_no_events ==
    /\ program = "cli" /\ thread_pc[1] \in {"select", "read"}
    /\ thread_pc' = [thread_pc EXCEPT ![1] = "gate"]
    /\ UNCHANGED <<program, binding, call,
                   config, now, device, grabbed, i2c_available, bus_open,
                   running, thread, last_update, main_todo, join_t0, closed,
                   loop_error, inputVars, pipeVars, busVars>>

\* An exception other than BlockingIOError leaves the while loop: Ctrl-C
\* (KeyboardInterrupt) anywhere in it, or OSError from select()/dev.read()
\* when the device goes away.
cli_interrupt(exc) ==
    /\ program = "cli" /\ thread_pc[1] \in {"select", "read", "gate"}
    /\ exc = "OSError" => thread_pc[1] # "gate"
    /\ thread_pc' = [thread_pc EXCEPT ![1] = "finally"]
    /\ loop_error' = exc
    /\ UNCHANGED <<program, binding, call,
                   config, now, device, grabbed, i2c_available, bus_open,
                   running, thread, last_update, main_todo, join_t0, closed,
                   inputVars, pipeVars, busVars>>

\* The buttons branch with reverse shaped like forward: a duration ramp
\* from its own press-start timestamp down to -1.0.
CliPedalButtons_symmetric(cfg, fwd, rev, starts, t) ==
    IF fwd /\ ~rev
    THEN LET s0 == IF starts.forward = None THEN t ELSE starts.forward
             linear_progress ==
                 Min2(Scale, FDiv(Seconds(t - s0) * Scale, cfg.throttle_ramp_duration))
         IN  [throttle_norm |-> apply_acceleration_curve(linear_progress,
                                    cfg.acceleration_curve, cfg.curve_strength),
              starts |-> [starts EXCEPT !.forward = s0]]
    ELSE IF rev /\ ~fwd
    THEN LET s0 == IF starts.reverse = None THEN t ELSE starts.reverse
             linear_progress ==
                 Min2(Scale, FDiv(Seconds(t - s0) * Scale, cfg.throttle_ramp_duration))
         IN  [throttle_norm |-> -apply_acceleration_curve(linear_progress,
                                    cfg.acceleration_curve, cfg.curve_strength),
              starts |-> [starts EXCEPT !.reverse = s0]]
    ELSE [throttle_norm |-> 0,
          starts |-> [forward |-> None, reverse |-> None]]

\* main(), buttons branch: forward follows the duration ramp, reverse is an
\* immediate -1.0 with its timestamp reset.
CliPedalButtons(cfg, fwd, rev, starts, t) ==
    IF fwd /\ ~rev
    THEN LET s0 == IF starts.forward = None THEN t ELSE starts.forward
             press_duration  == Seconds(t - s0)
             linear_progress ==
                 Min2(Scale, FDiv(press_duration * Scale, cfg.throttle_ramp_duration))
         IN  [throttle_norm |-> apply_acceleration_curve(linear_progress,
                                    cfg.acceleration_curve, cfg.curve_strength),
              starts |-> [starts EXCEPT !.forward = s0]]
    ELSE IF rev /\ ~fwd
    THEN [throttle_norm |-> -Scale,
          starts |-> [starts EXCEPT !.reverse = None]]
    ELSE [throttle_norm |-> 0,
          starts |-> [forward |-> None, reverse |-> None]]

\* An Xbox trigger: max(0, min(1, raw / 255.0)).
TriggerNorm(raw) == Max2(0, Min2(Scale, FDiv(raw * Scale, TriggerMax)))

\* main(), the tick body up to the writes: x and y after inversion.
cli_process(cfg, vmin, vmax, val, buttons, starts, t) ==
    LET x0 == apply_expo(apply_deadzone(normalize(val.x, vmin.x, vmax.x),
                                        cfg.deadzone), cfg.expo)
        x  == IF cfg.invert_steering THEN -x0 ELSE x0
        shape(v) == IF cfg.xbox_raw_output THEN v
                    ELSE apply_expo(apply_deadzone(v, cfg.deadzone), cfg.expo)
        pedal ==
            IF CliButtonsMode(cfg)
            THEN CliPedalButtons(cfg, buttons.forward, buttons.reverse, starts, t)
            ELSE [throttle_norm |->
                    IF /\ cfg.controller_type = "xbox"
                       /\ cfg.xbox_use_triggers
                       /\ cfg.pedal_mode = "axes"
                    THEN shape(TriggerNorm(val.forward) - TriggerNorm(val.reverse))
                    ELSE shape(normalize(val.y, vmin.y, vmax.y)),
                  starts |-> starts]
        y == IF cfg.invert_throttle THEN -pedal.throttle_norm ELSE pedal.throttle_norm
    IN  [forward_pressed |-> IF CliButtonsMode(cfg) THEN buttons.forward
                                 ELSE forward_pressed,
         reverse_pressed |-> IF CliButtonsMode(cfg) THEN buttons.reverse
                                 ELSE reverse_pressed,
         throttle_norm |-> pedal.throttle_norm,
         starts        |-> pedal.starts,
         processed     |-> [steering |-> x, throttle |-> y],
         raw_output    |-> /\ cfg.xbox_raw_output
                           /\ cfg.controller_type = "xbox"
                           /\ cfg.xbox_use_triggers]

\* The gate is due: the tick body and its two writes.  A write that raises
\* is not caught inside the loop: control passes to the finally block.
cli_tick(outcomes) ==
    /\ program = "cli" /\ thread_pc[1] = "gate"
    /\ Due(1)
    /\ last_update' = [last_update EXCEPT ![1] = now]
    /\ LET r  == cli_process(config, ax_min, ax_max, ax_val, button_states,
                             button_press_start_time, now)
           sf == IF r.raw_output THEN steering_filter
                 ELSE Push(steering_filter, filter_index, r.processed.steering)
           tf == IF r.raw_output THEN throttle_filter
                 ELSE Push(throttle_filter, filter_index, r.processed.throttle)
           xs == IF r.raw_output THEN r.processed.steering ELSE Mean(sf)
           ys == IF r.raw_output THEN r.processed.throttle ELSE Mean(tf)
       IN  /\ button_press_start_time' = r.starts
           /\ forward_pressed' = r.forward_pressed
           /\ reverse_pressed' = r.reverse_pressed
           /\ throttle_norm' = r.throttle_norm
           /\ processed_values' = r.processed
           /\ ticks' = ticks + 1
           /\ steering_filter' = sf
           /\ throttle_filter' = tf
           /\ filter_index' = IF r.raw_output THEN filter_index ELSE filter_index + 1
           /\ \E o \in outcomes :
                LET calls == WritePair("pipeline", to_dac12(xs, config.clamp),
                                       to_dac12(ys, config.clamp), o)
                IN  /\ dac' = Latch(dac, calls)
                    /\ centred' = centred \cup CentredBy(calls)
                    /\ bus_log' = calls
                    /\ IF calls[Len(calls)].raised
                       THEN /\ thread_pc' = [thread_pc EXCEPT ![1] = "finally"]
                            /\ loop_error' = "OSError"
                       ELSE /\ thread_pc' = [thread_pc EXCEPT ![1] = "select"]
                            /\ UNCHANGED loop_error
    /\ UNCHANGED <<program, binding, call,
                   config, now, device, grabbed, i2c_available, bus_open,
                   running, thread, main_todo, join_t0, closed, inputVars>>

\* The gate is not due: sleep and loop.
cli_skip ==
    /\ program = "cli" /\ thread_pc[1] = "gate"
    /\ ~Due(1)
    /\ thread_pc' = [thread_pc EXCEPT ![1] = "select"]
    /\ UNCHANGED <<program, binding, call,
                   config, now, device, grabbed, i2c_available, bus_open,
                   running, thread, last_update, main_todo, join_t0, closed,
                   loop_error, inputVars, pipeVars, busVars>>

\* The finally block: centre both channels (any exception swallowed),
\* ungrab if configured (any exception swallowed), close the bus.
cli_finally(outcomes) ==
    /\ program = "cli" /\ thread_pc[1] = "finally"
    /\ \E o \in outcomes :
        LET calls == WritePair("center", center, center, o)
        IN  /\ dac' = Latch(dac, calls)
            /\ centred' = centred \cup CentredBy(calls)
            /\ bus_log' = calls
    /\ grabbed' = FALSE
    /\ bus_open' = FALSE
    /\ thread_pc' = [thread_pc EXCEPT ![1] = "exited"]
    /\ UNCHANGED <<program, binding, call,
                   config, now, device, i2c_available, running, thread,
                   last_update, main_todo, join_t0, closed, loop_error,
                   inputVars, pipeVars>>

CliNext(evs, outcomes, horizon) ==
    \/ Advance("cli", horizon)
    \/ \E outcome \in {"ok", "bus_failed", "open_failed", "grab_failed"} :
         \E o \in outcomes : cli_startup(outcome, o)
    \/ \E e \in evs : cli_event(e)
    \/ cli_no_events
    \/ \E exc \in {"KeyboardInterrupt", "OSError"} : cli_interrupt(exc)
    \/ cli_tick(outcomes)
    \/ cli_skip
    \/ cli_finally(outcomes)

\* The standalone program: a T80 wheel with both pedal buttons, every bus
\* behaviour.
SpecCli ==
    CliInit({CliDefaultConfig})
    /\ [][CliNext(KeyEvents({BTN_TR, BTN_TL}), BusOutcomes, MaxTimeCli)]_vars


\* One session of either program with both pedal buttons and every bus
\* behaviour.
SpecPedal ==
    /\ GuiInit({DefaultConfig}) \/ CliInit({CliDefaultConfig})
    /\ [][\/ SessionNext(KeyEvents({BTN_TR, BTN_TL}), BusOutcomes, MaxTimePedal)
          \/ CliNext(KeyEvents({BTN_TR, BTN_TL}), BusOutcomes, MaxTimeCli)]_vars

\* Both programs: the GUI under operator control and the standalone loop.
Init == GuiInit(GuiConfigs) \/ CliInit({CliDefaultConfig})

Next ==
    \/ GuiNext(KeyEvents({BTN_TR}), HardOutcomes, MaxTimeGui)
    \/ CliNext(KeyEvents({BTN_TR}), HardOutcomes, MaxTimeCli)

Spec == Init /\ [][Next]_vars

\* A bus on which every framed write goes through.
OkOutcomes == {o \in BusOutcomes : o[1] /\ o[3]}

\* Output clamps from the smallest representable one to 1.0.
ClampVals == {1, Scale \div 2, 9800, Scale}

\* The quantizer at work: either program under every clamp of ClampVals, a
\* wheel that steers and a forward pedal, the Center button, a healthy bus.
SpecQuant ==
    /\ \/ GuiInit({[DefaultConfig EXCEPT !.clamp = c] : c \in ClampVals})
       \/ CliInit({[CliDefaultConfig EXCEPT !.clamp = c] : c \in ClampVals})
    /\ [][\/ SessionNext(KeyEvents({BTN_TR}) \cup AbsEvents({ABS_X}, RawVals),
                         OkOutcomes, MaxTimeQuant)
          \/ center_outputs(OkOutcomes)
          \/ CliNext(KeyEvents({BTN_TR}) \cup AbsEvents({ABS_X}, RawVals),
                     OkOutcomes, MaxTimeQuant)]_vars

\* Shaping parameters: (deadzone, expo) pairs and (steering, throttle) trims.
ShapeVals == {<<0, 0>>, <<200, 2500>>, <<Scale \div 2, Scale>>}

TrimVals == {<<0, 0>>, <<-(Scale \div 2), Scale>>, <<Scale, -Scale>>}

\* (use_separate_pedals, pedal_mode) of the GUI program.
GuiPedalModes == {<<TRUE, "buttons">>, <<TRUE, "split_axis">>, <<TRUE, "axes">>,
                  <<FALSE, "buttons">>}

GuiShapeConfigs ==
    {[DefaultConfig EXCEPT !.use_separate_pedals = m[1], !.pedal_mode = m[2],
                           !.invert_steering = is, !.invert_throttle = it,
                           !.deadzone = sh[1], !.expo = sh[2],
                           !.steering_trim = tr[1], !.throttle_trim = tr[2]] :
        m \in GuiPedalModes, is \in BOOLEAN, it \in BOOLEAN,
        sh \in ShapeVals, tr \in TrimVals}

\* (controller_type, use_separate_pedals, pedal_mode, xbox_raw_output) of
\* the standalone program.
CliPedalModes == {<<"t80", TRUE, "buttons", FALSE>>, <<"t80", FALSE, "buttons", FALSE>>,
                  <<"xbox", TRUE, "axes", FALSE>>, <<"xbox", TRUE, "axes", TRUE>>}

CliShapeConfigs ==
    {[CliDefaultConfig EXCEPT !.controller_type = m[1],
                              !.use_separate_pedals = m[2], !.pedal_mode = m[3],
                              !.xbox_raw_output = m[4],
                              !.invert_steering = is, !.invert_throttle = it,
                              !.deadzone = sh[1], !.expo = sh[2]] :
        m \in CliPedalModes, is \in BOOLEAN, it \in BOOLEAN, sh \in ShapeVals}

\* Events of a wheel with a steering axis, a throttle axis and a pedal.
ShapeEvents ==
    KeyEvents({BTN_TR}) \cup AbsEvents({ABS_X}, RawVals)
                        \cup AbsEvents({ABS_Z}, {100})

\* The shaping stage: either program under every configuration above.
SpecShape ==
    /\ GuiInit(GuiShapeConfigs) \/ CliInit(CliShapeConfigs)
    /\ [][\/ SessionNext(ShapeEvents, OkOutcomes, MaxTimeShape)
          \/ CliNext(ShapeEvents, OkOutcomes, MaxTimeShape)]_vars


\* ================================================================ claims

ButtonsMode == config.use_separate_pedals /\ config.pedal_mode = "buttons"

\* The slot of a filter written k ticks ago (k = 1: the latest push).
Slot(filter, k) == filter[((filter_index - k) % Len(filter)) + 1]

\* The pedal buttons as the event handler last recorded them.
ForwardHeld ==
    IF program = "gui" THEN button_states.forward_pedal ELSE button_states.forward

ReverseHeld ==
    IF program = "gui" THEN button_states.reverse_pedal ELSE button_states.reverse

\* Positions of a loop thread inside the while loop.
LoopPcs == {"while", "select", "read", "gate", "shape"}

\* The control loop has ended and no handler of the main thread is under way.
LoopTerminated ==
    IF program = "gui"
    THEN thread # 0 /\ thread_pc[thread] = "dead" /\ main_todo = <<>>
    ELSE thread_pc[1] = "exited"

\* The step is a tick whose bus writes ended in a write() that raised.
TickWriteRaised ==
    /\ ticks' = ticks + 1
    /\ bus_log' # <<>>
    /\ bus_log'[Len(bus_log')].src = "pipeline"
    /\ bus_log'[Len(bus_log')].raised

\* C1: in buttons mode, a tick that reads both buttons pressed produces a
\* pedal throttle of exactly 0.0 and leaves both press-start timestamps
\* None, whatever came before.
C1_Interlock ==
    (ButtonsMode /\ ticks > 0 /\ forward_pressed /\ reverse_pressed)
        => /\ throttle_norm = 0
           /\ button_press_start_time.forward = None
           /\ button_press_start_time.reverse = None

\* A tick read both buttons pressed right after a tick that produced a
\* non-zero throttle.
C1_Witness ==
    /\ ButtonsMode /\ i2c_available /\ ticks >= 2 /\ loop_error = "none"
    /\ forward_pressed /\ reverse_pressed
    /\ Slot(throttle_filter, 2) # 0
    /\ Slot(throttle_filter, 1) = 0

C7_FallbackOnce ==
    \A i \in 1..Len(bus_log) :
        LET c == bus_log[i]
        IN  /\ Len(c.ops) \in {1, 2}
            /\ c.ops[1].kind = "write_i2c_block_data"
            /\ c.ops[1].ok => (Len(c.ops) = 1 /\ ~c.raised)
            /\ ~c.ops[1].ok =>
                 /\ Len(c.ops) = 2
                 /\ c.ops[2].kind = "i2c_rdwr"
                 /\ c.ops[2].data = c.ops[1].data
                 /\ c.raised <=> ~c.ops[2].ok

\* One tick in which the steering write was rescued by the raw write and
\* the throttle write failed on both paths.
C7_Witness ==
    /\ Len(bus_log) = 2 /\ ticks > 0
    /\ bus_log[1].src = "pipeline"
    /\ Len(bus_log[1].ops) = 2 /\ ~bus_log[1].raised
    /\ Len(bus_log[2].ops) = 2 /\ bus_log[2].raised


\* The loop ended because it was asked to stop, not by an exception.
StoppedOnRequest == LoopTerminated /\ loop_error = "none"

\* C3, on the stop-request path: once the control loop has terminated, the
\* code 2048 has been written after the loop's last pipeline write.  Read
\* in the code's favour: the last bus operation is a centring attempt, or
\* every channel the loop wrote holds 2048 anyway.
C3_CentreOnExit ==
    StoppedOnRequest =>
        \/ bus_log = <<>>
        \/ bus_log[1].src = "center"
        \/ \A ch \in Channels : dac[ch].code \in {None, center}

\* C4: whenever a channel holds a pipeline-derived code, the code 2048 has
\* been latched by both channels before.
C4_CentreBeforeControl ==
    \A ch \in Channels : dac[ch].src = "pipeline" => centred = Channels

\* C5, on the stop-request path: once the control loop has terminated, the
\* exclusive grab of the device has been released and the bus handle has
\* been closed.
C5_ReleaseOnExit ==
    StoppedOnRequest => (~grabbed /\ ~bus_open)

\* C6: a tick whose bus write failed on both paths leaves the loop running:
\* the thread that ran the tick goes on to the next iteration.
C6_LoopSurvivesWrite ==
    [][TickWriteRaised =>
         \A th \in Threads :
            (thread_pc[th] = "gate" /\ thread_pc'[th] # "gate")
                => thread_pc'[th] \in LoopPcs]_vars

\* A step by which a thread enters the control loop.
EntersLoop(th) ==
    thread_pc[th] \in {"entry", "startup"} /\ thread_pc'[th] \in LoopPcs

\* C10 as stated: the control loop is entered only with the input device
\* open and the bus device open.
C10_NoStartWithoutDevices ==
    [][\A th \in Threads : EntersLoop(th) => (device' = "open" /\ i2c_available')]_vars

\* C10, amended: the control loop is entered only with the input device
\* open; the standalone program enters it only with the bus open as well;
\* the GUI controller whose bus did not open enters it and ticks, but never
\* hands anything to the bus.
C10_StartGuard ==
    [][/\ \A th \in Threads :
            EntersLoop(th) => (device' = "open" /\ (program = "cli" => bus_open'))
       /\ (program = "gui" /\ ~i2c_available) => bus_log' = <<>>]_vars

\* The GUI controller ticking without a bus.
C10_Witness ==
    /\ program = "gui" /\ ~i2c_available
    /\ ticks > 0 /\ bus_log = <<>>
    /\ \E th \in Threads : thread_pc[th] \in LoopPcs


\* C8: every value handed to the bus, by a tick or by a centring write, is
\* an integer code in 0..4095, and the two data bytes of each transaction
\* carry exactly that code, under every clamp in (0, 1].
C8_CodesInRange ==
    \A i \in 1..Len(bus_log) :
        LET c == bus_log[i]
        IN  /\ c.arg \in 0..4095
            /\ c.val = c.arg
            /\ \A k \in 1..Len(c.ops) :
                /\ c.ops[k].data[1] \in 0..255
                /\ c.ops[k].data[2] \in 0..255
                /\ Decode(c.ops[k].data) = c.arg

\* A tick under the smallest clamp whose smoothed steering value lies
\* outside the clamp, so that the quantizer saturates.
C8_Witness ==
    /\ config.clamp = 1 /\ ticks > 0
    /\ bus_log # <<>> /\ bus_log[1].src = "pipeline"
    /\ Abs(Mean(steering_filter)) > config.clamp
    /\ bus_log[1].arg \in {0, 4095}

\* C9: after every tick the processed steering and throttle values lie in
\* [-1.0, 1.0], whatever the pedal mode, inversion flags, trims, deadzone
\* and expo.
C9_ProcessedInRange ==
    /\ processed_values.steering \in -Scale..Scale
    /\ processed_values.throttle \in -Scale..Scale

\* A tick whose shaped steering value plus the trim leaves [-1, 1], so that
\* the clamp of the trim step decides the result.
C9_Witness ==
    /\ program = "gui" /\ ticks > 0
    /\ config.steering_trim = Scale /\ ~config.invert_steering
    /\ HasKey(ax_val, "steering") /\ ax_val.steering > ax_min.steering
    /\ processed_values.steering = Scale


\* ------------------------------------------------ configuration loading

\* Contents of the configuration file: one option each, in range (the
\* default rate) or out of range (clamp 1.5, deadzone 1.0, ramp -1.0 s,
\* rate 0).
ConfigFiles ==
    {[k \in {"update_hz"} |-> 200],
     [k \in {"clamp"} |-> Scale + Scale \div 2],
     [k \in {"deadzone"} |-> Scale],
     [k \in {"throttle_ramp_duration"} |-> -Scale],
     [k \in {"update_hz"} |-> 0]}

\* Both programs started with a configuration file present.
SpecLoad ==
    /\ \/ GuiInit({load_config(DefaultConfig, f) : f \in ConfigFiles})
       \/ CliInit({load_config(CliDefaultConfig, f) : f \in ConfigFiles})
    /\ [][\/ SessionNext(KeyEvents({BTN_TR}), OkOutcomes, MaxTimeLoad)
          \/ CliNext(KeyEvents({BTN_TR}), OkOutcomes, MaxTimeLoad)]_vars

\* The ranges the options are documented to have.
ValidConfig(cfg) ==
    /\ cfg.throttle_ramp_duration > 0
    /\ cfg.update_hz > 0
    /\ cfg.deadzone >= 0 /\ cfg.deadzone < Scale
    /\ cfg.clamp > 0 /\ cfg.clamp <= Scale

\* C11: a configuration holding an out-of-range option (ramp duration <= 0,
\* rate <= 0, deadzone outside [0,1), clamp outside (0,1]) is rejected before
\* the loop starts, so that no tick ever runs with it.
C11_InvalidRejected == ~ValidConfig(config) => ticks = 0


\* --------------------------------------------------------- input binding

BindingTargets == {"steering", "forward"}

\* One session of the GUI program during which the operator uses the Input
\* Binding tab.
SpecBinding ==
    /\ GuiInit({DefaultConfig})
    /\ [][\/ SessionNext(KeyEvents({BTN_TR}) \cup AbsEvents({ABS_X}, {2000}),
                         OkOutcomes, MaxTimeBind)
          \/ \E target \in BindingTargets : start_binding(target)
          \/ cancel_binding]_vars

\* C12: while binding mode is active (the operator has started a binding
\* that is neither captured nor cancelled) no tick of the pipeline produces
\* outputs and writes them to the bus.
C12_BindingSilent ==
    [][(binding.gui_mode /\ i2c_available) => ticks' = ticks]_vars


\* ------------------------------------------------------------ calibration

\* One session of the GUI program during which the operator may press
\* Reset Calibration.
SpecCalib ==
    /\ GuiInit({DefaultConfig})
    /\ [][\/ SessionNext(AbsEvents({ABS_X}, RawVals) \cup AbsEvents({ABS_Z}, {100}),
                         OkOutcomes, MaxTimeCalib)
          \/ reset_calibration
          \/ MainResetMax]_vars

\* A loop thread is inside input_loop's while loop.
LoopRunning == \E th \in Threads : thread_pc[th] \in LoopPcs

\* C13: while a loop thread is running, no step of the main thread modifies
\* the calibration bounds, the button state or the filter buffers.
C13_SingleWriter ==
    [][(LoopRunning /\ main_todo' # main_todo) =>
          UNCHANGED <<ax_min, ax_max, button_states, steering_filter,
                      throttle_filter>>]_vars


\* ------------------------------------------------- tuning while running

\* The Configuration tab as the operator may leave it: the loaded values,
\* with the pedal mode chosen in the combo box.
ConfigForms ==
    {[update_hz |-> DefaultConfig.update_hz,
      deadzone |-> DefaultConfig.deadzone,
      expo |-> DefaultConfig.expo,
      invert_steering |-> DefaultConfig.invert_steering,
      invert_throttle |-> DefaultConfig.invert_throttle,
      pedal_mode |-> m,
      steering_trim |-> 0,
      throttle_trim |-> 0,
      analog_pedal_feel |-> DefaultConfig.analog_pedal_feel] :
        m \in {"buttons", "split_axis"}}

\* Trim slider positions (0.0 and 0.25).
TrimSlider == {0, Scale \div 4}

\* One session of the GUI program, the tick seen in its two parts, while
\* the operator moves the steering trim slider or saves the Configuration
\* tab.
SpecTune ==
    /\ GuiInit({DefaultConfig})
    /\ [][\/ Advance("gui", MaxTimeTune)
          \/ connect_device("ok")
          \/ start
          \/ \E value \in TrimSlider : update_steering_trim(value)
          \/ \E form \in ConfigForms : save_configuration(form)
          \/ \E th \in Threads :
                \/ LoopEntry(th)
                \/ LoopWhile(th)
                \/ \E e \in KeyEvents({BTN_TR}) : LoopEvent(th, e)
                \/ LoopNoEvents(th)
                \/ LoopTickBegin(th)
                \/ LoopTickEnd(th, OkOutcomes)
                \/ LoopSkip(th)]_vars

\* A loop thread is inside a run of process_inputs.
MidTick == \E th \in Threads : thread_pc[th] = "shape"

\* C14: no option changes between the start and the end of one tick, and
\* the pedal mode does not change while the loop is running.
C14_ConfigStable ==
    [][/\ MidTick => config' = config
       /\ LoopRunning => config'.pedal_mode = config.pedal_mode]_vars


\* ------------------------------------------------------- duration ramp

\* Both programs with their default configuration (exponential shape,
\* strength 2, ramp 1.0 s), the forward pedal button and a bus that works,
\* for longer than the ramp lasts.
SpecRamp ==
    /\ \/ GuiInit({DefaultConfig})
       \/ CliInit({CliDefaultConfig})
    /\ [][\/ SessionNext(KeyEvents({BTN_TR}), OkOutcomes, MaxTimeRamp)
          \/ CliNext(KeyEvents({BTN_TR}), OkOutcomes, MaxTimeRamp)]_vars

\* Seconds between the recorded press start of the forward pedal and now.
HeldFor == Seconds(now - button_press_start_time.forward)

SpecDigital ==
    /\ \/ GuiInit({[DefaultConfig EXCEPT !.analog_pedal_feel = FALSE]})
       \/ CliInit({[CliDefaultConfig EXCEPT !.analog_pedal_feel = FALSE]})
    /\ [][\/ SessionNext(KeyEvents({BTN_TR, BTN_TL}), OkOutcomes, MaxTimeDigital)
          \/ CliNext(KeyEvents({BTN_TR, BTN_TL}), OkOutcomes, MaxTimeDigital)]_vars

\* C16: in buttons mode with analog_pedal_feel off the pedals are digital:
\* a tick that finds forward alone pressed (the first such tick included)
\* gives the throttle 1.0, reverse alone -1.0, neither or both 0.0.
C16_DigitalPedals ==
    [][(/\ ticks' = ticks + 1
        /\ ButtonsMode
        /\ ~config.analog_pedal_feel)
       => throttle_norm' =
            IF ForwardHeld /\ ~ReverseHeld THEN Scale
            ELSE IF ReverseHeld /\ ~ForwardHeld THEN -Scale
            ELSE 0]_vars


\* ------------------------------------------------------------- axes mode

\* Two analog pedals are selected in the GUI program.
AxesMode ==
    /\ program = "gui"
    /\ config.use_separate_pedals /\ config.pedal_mode = "axes"

\* A loop thread passes the tick gate in this step: it finds the tick due
\* and takes the time.
TickStarts ==
    \E th \in Threads :
        thread_pc[th] = "gate" /\ Due(th) /\ last_update'[th] # last_update[th]

\* Deadzone and expo with the configured parameters.
Shaped(x) == apply_expo(apply_deadzone(x, config.deadzone), config.expo)

\* C17: in axes mode every tick sets the throttle to
\* shaped(normalize(forward)) - shaped(normalize(reverse)), each axis
\* normalised against its own calibration bounds and shaped before the
\* subtraction (then inverted and trimmed as configured).
C17_AxesThrottle ==
    [][(AxesMode /\ TickStarts)
       => /\ ticks' = ticks + 1
          /\ \A d \in {ax_val, ax_min, ax_max} : HasKey(d, "forward") /\ HasKey(d, "reverse")
          /\ LET y == Shaped(Norm(ax_min, ax_max, ax_val, "forward"))
                      - Shaped(Norm(ax_min, ax_max, ax_val, "reverse"))
             IN  processed_values'.throttle =
                    ApplyTrim(IF config.invert_throttle THEN -y ELSE y,
                              config.throttle_trim)]_vars


\* ---------------------------------------------------- acceleration curves

\* Shape names: the four known ones and one that is not.
CurveNames == {"linear", "exponential", "quadratic", "s_curve", "cubic"}

CurveConfigs ==
    {[DefaultConfig EXCEPT !.acceleration_curve = c, !.curve_strength = n] :
        c \in CurveNames, n \in 0..MaxStrength}

\* Progress samples from below 0 to above 1.
ProgressVals == {(k * Scale) \div CurveGrid : k \in -1..(CurveGrid + 1)}

\* A controller is constructed and apply_acceleration_curve is called on it
\* directly, as the test scripts do, for two progress values.
CurveInit ==
    /\ Construct(CurveConfigs)
    /\ call \in [fn : {"apply_acceleration_curve"},
                 args : ProgressVals \X ProgressVals,
                 result : {<<>>}]

call_apply_acceleration_curve ==
    /\ call.fn = "apply_acceleration_curve" /\ call.result = <<>>
    /\ call' = [call EXCEPT !.result =
                  <<apply_acceleration_curve(call.args[1], config.acceleration_curve,
                                             config.curve_strength),
                    apply_acceleration_curve(call.args[2], config.acceleration_curve,
                                             config.curve_strength)>>]
    /\ UNCHANGED <<program, binding, config, now, device, grabbed, i2c_available,
                   bus_open, running, thread, thread_pc, last_update, main_todo,
                   join_t0, closed, loop_error, inputVars, pipeVars, busVars>>

SpecCurve == CurveInit /\ [][call_apply_acceleration_curve]_vars

\* The direct call has returned.
Returned == call.result # <<>>

KnownCurves == {"linear", "exponential", "quadratic", "s_curve"}

\* C18: with a shape name outside the four known ones the curve returns what
\* the linear shape returns for the same progress (0 below the range, 1
\* above it, the progress itself inside), and raises nothing.
C18_UnknownIsLinear ==
    (Returned /\ config.acceleration_curve \notin KnownCurves) =>
        \A i \in 1..2 :
            call.result[i] = Max2(0, Min2(Scale, call.args[i]))

\* An unknown shape was applied to a progress strictly inside the range.
C18_Witness ==
    /\ Returned /\ config.acceleration_curve = "cubic"
    /\ call.args[1] = Scale \div 4 /\ call.result[1] = Scale \div 4

\* C19: for every shape and strength the curve is 0.0 at progress <= 0 and
\* 1.0 at progress >= 1; the linear, the exponential (strength >= 1) and the
\* quadratic shape are non-decreasing on [0,1].
C19_EndsAndMonotone ==
    Returned =>
        /\ \A i \in 1..2 :
              /\ call.args[i] <= 0 => call.result[i] = 0
              /\ call.args[i] >= Scale => call.result[i] = Scale
        /\ (/\ \/ config.acceleration_curve \in {"linear", "quadratic"}
               \/ config.acceleration_curve = "exponential" /\ config.curve_strength >= 1
            /\ 0 <= call.args[1] /\ call.args[1] <= call.args[2]
            /\ call.args[2] <= Scale)
           => call.result[1] <= call.result[2]

\* The exponential shape of strength 2 applied to 0.5 and to 1.0.
C19_Witness ==
    /\ Returned
    /\ config.acceleration_curve = "exponential" /\ config.curve_strength = 2
    /\ call.args = <<Scale \div 2, Scale>>
    /\ call.result = <<Scale \div 4, Scale>>


\* -------------------------------------------------------------- quantizer

\* Clamp settings in (0,1]: a grid and the default 0.98.
ClampGrid == {(k * Scale) \div CodeGrid : k \in 1..CodeGrid} \cup {DefaultConfig.clamp}

\* Normalised inputs from below -1 to above 1.
CodeInputs == {(k * Scale) \div CodeGrid : k \in -(CodeGrid + 2)..(CodeGrid + 2)}

\* A controller is constructed and to_dac12 is called on it directly.
CodeInit ==
    /\ Construct({[DefaultConfig EXCEPT !.clamp = c] : c \in ClampGrid})
    /\ call \in [fn : {"to_dac12"}, args : {<<x>> : x \in CodeInputs},
                 result : {<<>>}]

call_to_dac12 ==
    /\ call.fn = "to_dac12" /\ call.result = <<>>
    /\ call' = [call EXCEPT !.result = <<to_dac12(call.args[1], config.clamp)>>]
    /\ UNCHANGED <<program, binding, config, now, device, grabbed, i2c_available,
                   bus_open, running, thread, thread_pc, last_update, main_todo,
                   join_t0, closed, loop_error, inputVars, pipeVars, busVars>>

SpecCode == CodeInit /\ [][call_to_dac12]_vars

\* C20: for every clamp in (0,1] the quantizer maps 0.0 to 2048 (2047.5
\* rounds to 2048), every input >= clamp to 4095 and every input <= -clamp
\* to 0; so (0.0, 0.98) gives 2048, (1.0, 1.0) gives 4095, (-1.0, 1.0) 0.
C20_CodeAnchors ==
    Returned =>
        LET x == call.args[1]
            code == call.result[1]
        IN  /\ x = 0 => code = 2048
            /\ x >= config.clamp => code = 4095
            /\ x <= -config.clamp => code = 0

\* The quantizer applied to 0.0 with the default clamp 0.98.
C20_Witness ==
    /\ Returned /\ call.fn = "to_dac12"
    /\ config.clamp = 9800 /\ call.args = <<0>> /\ call.result = <<2048>>


\* ------------------------------------------------------- Python floats
\*
\* sum(filter) / len(filter) is computed in IEEE-754 binary64.  For the
\* question whether a mean is equal to a value, a float is kept bit by bit:
\* a natural number is a string of bits, least significant first, and a
\* float is sign * m * 2^e with m a string of exactly Precision bits whose
\* top bit is 1 (0.0 has the empty string).  The operations are functions:
\* an argument is a value, worked out once, when the function is applied.

\* Significand bits of a Python float.
Precision == 53

\* Extra quotient bits a division carries before it rounds.
GuardBits == 10

BitStrings == Seq({0, 1})

Floats == [sign : {-1, 1}, m : BitStrings, e : Int]

RECURSIVE NatBits(_)
NatBits(n) == IF n = 0 THEN <<>> ELSE <<n % 2>> \o NatBits(n \div 2)

Zeros(k) == [i \in 1..k |-> 0]

Bit(x, i) == IF i \in 1..Len(x) THEN x[i] ELSE 0

\* x without its top zeros.
BitsTrim[x \in BitStrings] ==
    SubSeq(x, 1, Cardinality({i \in 1..Len(x) : \E k \in i..Len(x) : x[k] = 1}))

\* The carry into bit i of x + y: some lower position generates a carry and
\* every position between propagates it.
Carry(x, y, i) ==
    \E j \in 1..(i - 1) :
        /\ Bit(x, j) = 1 /\ Bit(y, j) = 1
        /\ \A k \in (j + 1)..(i - 1) : Bit(x, k) + Bit(y, k) >= 1

BitsAdd[x \in BitStrings, y \in BitStrings] ==
    BitsTrim[[i \in 1..(Max2(Len(x), Len(y)) + 1) |->
                (Bit(x, i) + Bit(y, i) + (IF Carry(x, y, i) THEN 1 ELSE 0)) % 2]]

\* 2^d modulo a small n, by repeated squaring.
Pow2Mod[d \in Nat, n \in Nat] ==
    IF d = 0 THEN 1 % n
    ELSE IF d % 2 = 1 THEN (2 * Pow2Mod[d - 1, n]) % n
    ELSE (Pow2Mod[d \div 2, n] * Pow2Mod[d \div 2, n]) % n

\* The bits lo..hi of x, taken as a number, modulo a small n.
RECURSIVE RemRange(_, _, _, _)
RemRange(x, n, lo, hi) ==
    IF lo > hi THEN 0
    ELSE IF lo = hi THEN x[lo] % n
    ELSE (RemRange(x, n, (lo + hi) \div 2 + 1, hi)
              * Pow2Mod[(lo + hi) \div 2 - lo + 1, n]
          + RemRange(x, n, lo, (lo + hi) \div 2)) % n

\* Long division of x by a small n: quotient (top zeros kept) and remainder.
BitsDivMod[x \in BitStrings, n \in Nat] ==
    [q |-> [j \in 1..Len(x) |->
              (2 * RemRange(x, n, j + 1, Len(x)) + x[j]) \div n],
     r |-> RemRange(x, n, 1, Len(x))]

\* The Precision top bits of x with one added to them, as significand and
\* scale: a carry out of the top bit leaves 1 followed by zeros.
RoundUp[top \in BitStrings, drop \in Int] ==
    IF \A i \in 1..Len(top) : top[i] = 1
    THEN [m |-> Zeros(Precision - 1) \o <<1>>, e |-> drop + 1]
    ELSE [m |-> BitsAdd[top, <<1>>], e |-> drop]

\* Round the non-zero natural x (sticky: a non-zero part below its lowest
\* bit was cut off) to Precision bits, to nearest, ties to even: the
\* significand and the power of two it is to be scaled by.
RoundBits[x \in BitStrings, sticky \in BOOLEAN] ==
    IF Len(x) <= Precision
    THEN [m |-> Zeros(Precision - Len(x)) \o x, e |-> Len(x) - Precision]
    ELSE IF /\ x[Len(x) - Precision] = 1
            /\ \/ sticky
               \/ \E i \in 1..(Len(x) - Precision - 1) : x[i] = 1
               \/ x[Len(x) - Precision + 1] = 1
    THEN RoundUp[SubSeq(x, Len(x) - Precision + 1, Len(x)), Len(x) - Precision]
    ELSE [m |-> SubSeq(x, Len(x) - Precision + 1, Len(x)),
          e |-> Len(x) - Precision]

FloatZero == [sign |-> 1, m |-> <<>>, e |-> 0]

\* The float with the sign and exponent given and the rounded significand r.
Scaled(sign, e, r) == [sign |-> sign, m |-> r.m, e |-> e + r.e]

\* float(k) of a Python int k.
FloatOfInt[k \in Int] ==
    IF k = 0 THEN FloatZero
    ELSE Scaled(IF k < 0 THEN -1 ELSE 1, 0, RoundBits[NatBits(Abs(k)), FALSE])

\* a + b for floats of the same sign (or zero).
FloatAdd[a \in Floats, b \in Floats] ==
    IF a.m = <<>> THEN b
    ELSE IF b.m = <<>> THEN a
    ELSE IF a.e >= b.e
    THEN Scaled(a.sign, b.e, RoundBits[BitsAdd[Zeros(a.e - b.e) \o a.m, b.m], FALSE])
    ELSE Scaled(a.sign, a.e, RoundBits[BitsAdd[Zeros(b.e - a.e) \o b.m, a.m], FALSE])

\* The rounded quotient of a division whose outcome is d.
RoundQuotient[d \in [q : BitStrings, r : Nat]] == RoundBits[BitsTrim[d.q], d.r # 0]

\* a / n for a float a and a small positive int n.
FloatDivInt[a \in Floats, n \in Nat] ==
    IF a.m = <<>> THEN a
    ELSE Scaled(a.sign, a.e - GuardBits,
                RoundQuotient[BitsDivMod[Zeros(GuardBits) \o a.m, n]])

\* The float a decimal literal k/n denotes: the quotient, rounded once.
FloatOfRatio[k \in Int, n \in Nat] == FloatDivInt[FloatOfInt[k], n]

\* sum(values) as CPython computes it up to version 3.11: the running total
\* is rounded after every addition.
FloatSum[values \in Seq(Floats), total \in Floats] ==
    IF values = <<>> THEN total
    ELSE FloatSum[Tail(values), FloatAdd[total, Head(values)]]

\* sum(values) of n equal floats from version 3.12 on (compensated
\* summation): the exact sum, rounded once.
BitsTimes[x \in BitStrings, n \in Nat] ==
    IF n = 0 THEN <<>> ELSE BitsAdd[x, BitsTimes[x, n - 1]]

FloatSumExact[v \in Floats, n \in Nat] ==
    IF v.m = <<>> THEN v
    ELSE Scaled(v.sign, v.e, RoundBits[BitsTimes[v.m, n], FALSE])


\* ------------------------------------------------------ output smoothing

\* Direct calls: constant values are the multiples of 1/MeanGrid in [-1,1].
MeanGrid == 20

\* The smoothed value of a channel: sum(filter) / len(filter), in floats.
\* Which of the two summations runs depends on the interpreter.
smooth[filter \in Seq(Floats), method \in {"sequential", "compensated"}] ==
    FloatDivInt[IF method = "compensated"
                THEN FloatSumExact[filter[1], Len(filter)]
                ELSE FloatSum[filter, FloatOfInt[0]],
                Len(filter)]

\* The filter of a channel after its n slots have been written with value.
Filled[value \in Floats, n \in Nat] == [i \in 1..n |-> value]

\* A controller is constructed and one constant value is pushed into a
\* channel's filter as many times as the filter is long.
SmoothInit ==
    /\ Construct({DefaultConfig})
    /\ call \in [fn : {"smooth"},
                 args : (-MeanGrid..MeanGrid) \X {SteeringWindow, ThrottleWindow},
                 result : {<<>>}]

\* The mean of the filter after the pushes.
call_smooth ==
    /\ call.fn = "smooth" /\ call.result = <<>>
    /\ \E method \in {"sequential", "compensated"} :
         call' = [call EXCEPT !.result =
                    <<smooth[Filled[FloatOfRatio[call.args[1], MeanGrid],
                                    call.args[2]], method]>>]
    /\ UNCHANGED <<program, binding, config, now, device, grabbed, i2c_available,
                   bus_open, running, thread, thread_pc, last_update, main_todo,
                   join_t0, closed, loop_error, inputVars, pipeVars, busVars>>

SpecSmooth == SmoothInit /\ [][call_smooth]_vars

\* C21: once a channel's window (5 slots for steering, 3 for throttle) is
\* filled with one constant value, the smoothed value, the arithmetic mean
\* of the slots, is equal to that value.
C21_ConstantMean ==
    (Returned /\ call.fn = "smooth") =>
        call.result[1] = FloatOfRatio[call.args[1], MeanGrid]


\* ------------------------------------------------------------ normalizer

\* Direct calls: raw samples and calibration bounds are the multiples of
\* NormStep from -NormSpan * NormStep to NormSpan * NormStep.
NormSpan == 3
NormStep == 50

NormSamples == {k * NormStep : k \in -NormSpan..NormSpan}

\* Calibration bounds of an axis: the smallest and the largest of the
\* samples seen, or the sentinel pair no sample has touched yet.
NormBounds ==
    {b \in NormSamples \X NormSamples : b[1] <= b[2]}
        \cup {<<SentinelMin, SentinelMax>>}

\* A controller is constructed and normalize is called on it directly.
NormInit ==
    /\ Construct({DefaultConfig})
    /\ call \in [fn : {"normalize"},
                 args : {<<raw, b[1], b[2]>> : raw \in NormSamples, b \in NormBounds},
                 result : {<<>>}]

call_normalize ==
    /\ call.fn = "normalize" /\ call.result = <<>>
    /\ call' = [call EXCEPT !.result =
                  <<normalize(call.args[1], call.args[2], call.args[3])>>]
    /\ UNCHANGED <<program, binding, config, now, device, grabbed, i2c_available,
                   bus_open, running, thread, thread_pc, last_update, main_todo,
                   join_t0, closed, loop_error, inputVars, pipeVars, busVars>>

SpecNorm == NormInit /\ [][call_normalize]_vars

\* C22: for all raw, min_seen and max_seen, the sentinel pair and the
\* single-sample case included, normalize returns
\* clamp(2 * (raw - min_seen) / max(max_seen - min_seen, 1) - 1, -1, 1); the
\* result lies in [-1,1] and is -1.0 when the one sample seen is normalised.
C22_Normalize ==
    (Returned /\ call.fn = "normalize") =>
        LET raw  == call.args[1]
            vmin == call.args[2]
            vmax == call.args[3]
            span == Max2(vmax - vmin, 1)
        IN  /\ call.result[1] =
                 Max2(-Scale, Min2(Scale, FDiv(2 * (raw - vmin) * Scale, span) - Scale))
            /\ call.result[1] \in -Scale..Scale
            /\ (vmax = vmin /\ raw = vmin) => call.result[1] = -Scale


\* -------------------------------------------------- calibration widening

\* Samples a steering axis reports, and the most of them one run delivers.
CalibSamples == {-200, -50, 30, 100}

MaxScript == 4

MaxTimeObserve == 1

\* What the device is going to report on its steering axis: every sequence
\* of distinct samples, in every order.
Scripts ==
    {s \in UNION {[1..n -> CalibSamples] : n \in 1..MaxScript} :
        \A i, j \in 1..Len(s) : i # j => s[i] # s[j]}

\* The steering axis as each program names it.
SteeringAxis == IF program = "gui" THEN "steering" ELSE "x"

\* How many samples of the script the loop has read: the place of the
\* axis's last value in the script.
Delivered ==
    Cardinality({i \in 1..Len(call.args) :
                    \E j \in i..Len(call.args) : call.args[j] = ax_val[SteeringAxis]})

\* The event the device holds ready: the next sample of the script.
ScriptEvents ==
    {[type |-> "EV_ABS", code |-> ABS_X, value |-> call.args[i]] :
        i \in {Delivered + 1} \cap (1..Len(call.args))}

\* Either program at its start, attached to a device that is going to
\* report the samples of a script.
ObserveInit ==
    /\ Construct({DefaultConfig}) \/ CliConstruct({CliDefaultConfig})
    /\ call \in [fn : {"device"}, args : Scripts, result : {<<>>}]

SpecObserve ==
    ObserveInit
    /\ [][\/ SessionNext(ScriptEvents, OkOutcomes, MaxTimeObserve)
          \/ CliNext(ScriptEvents, OkOutcomes, MaxTimeObserve)]_vars

\* The samples read so far.
Observed == {call.args[i] : i \in 1..Delivered}

\* C23: starting from the sentinel pair, the bounds of an axis after a set
\* of samples are the smallest and the largest sample of the set, whatever
\* the order of arrival; -50, 30, 100 and -200 in any order give (-200, 100).
C23_OrderFree ==
    /\ Observed = {} =>
          /\ ax_min[SteeringAxis] = SentinelMin
          /\ ax_max[SteeringAxis] = SentinelMax
    /\ Observed # {} =>
          /\ ax_min[SteeringAxis] \in Observed
          /\ ax_max[SteeringAxis] \in Observed
          /\ \A v \in Observed :
                ax_min[SteeringAxis] <= v /\ v <= ax_max[SteeringAxis]
    /\ Observed = {-50, 30, 100, -200} =>
          /\ ax_min[SteeringAxis] = -200
          /\ ax_max[SteeringAxis] = 100

\* The four samples have arrived in the order 30, -200, 100, -50 and a tick
\* has run since.
C23_Witness ==
    /\ call.args = <<30, -200, 100, -50>>
    /\ Delivered = 4 /\ ticks > 0
    /\ ax_min[SteeringAxis] = -200 /\ ax_max[SteeringAxis] = 100


\* ------------------------------------------------ press-start timestamps

\* C24: in buttons mode, at the end of every tick and for each pedal, a
\* pedal whose button is released has no press-start timestamp (None), also
\* when the tick found the other pedal held alone.
C24_ReleasedIsNone ==
    [][(ticks' = ticks + 1 /\ ButtonsMode)
       => /\ ~ForwardHeld => button_press_start_time'.forward = None
          /\ ~ReverseHeld => button_press_start_time'.reverse = None]_vars


\* C25: each press of forward starts its own ramp.  A released-to-pressed
\* transition delivered by an event finds no press-start timestamp left
\* over from an earlier press (also when the release and the re-press, or a
\* switch to reverse and back, fall between two ticks), and the first tick
\* that then finds forward held alone records its own time; so the hold
\* duration of later ticks is measured from the first tick at or after the
\* press and never from an earlier press.
C25_OwnRamp ==
    [][/\ (ButtonsMode /\ ~ForwardHeld /\ ForwardHeld')
          => button_press_start_time.forward = None
       /\ (/\ ticks' = ticks + 1
           /\ ButtonsMode
           /\ ForwardHeld /\ ~ReverseHeld
           /\ button_press_start_time.forward = None)
          => button_press_start_time'.forward = now]_vars


\* ------------------------------------------------- calibration monotone

\* Axis samples, the initial last value 0 among them, and trigger
\* positions.
WidenSamples == {-200, 0, 100}

TriggerSamples == {0, 100, TriggerMax}

MaxTimeWiden == 1

\* A device with a steering axis, a throttle axis and a trigger.
WidenEvents ==
    AbsEvents({ABS_X, ABS_Y}, WidenSamples) \cup AbsEvents({ABS_RZ}, TriggerSamples)

\* Either program at its start; the standalone program with a wheel or
\* with an Xbox controller that uses its triggers.
WidenInit ==
    \/ GuiInit({DefaultConfig})
    \/ CliInit({CliDefaultConfig,
                [CliDefaultConfig EXCEPT !.controller_type = "xbox",
                                         !.pedal_mode = "axes"]})

\* Sessions of axis events and ticks without a calibration reset.
SpecWiden ==
    WidenInit
    /\ [][\/ SessionNext(WidenEvents, OkOutcomes, MaxTimeWiden)
          \/ CliNext(WidenEvents, OkOutcomes, MaxTimeWiden)]_vars

\* C26: without a reset, no step raises an axis's lower bound or lowers its
\* upper bound, and every step that delivers a sample to an axis leaves
\* that axis with min_seen <= max_seen (which the later steps then keep).
C26_Monotone ==
    [][\A a \in DOMAIN ax_min :
          /\ ax_min'[a] <= ax_min[a]
          /\ ax_max'[a] >= ax_max[a]
          /\ ax_min[a] <= ax_max[a] => ax_min'[a] <= ax_max'[a]
          /\ <<ax_min'[a], ax_max'[a], ax_val'[a]>> # <<ax_min[a], ax_max[a], ax_val[a]>>
             => ax_min'[a] <= ax_max'[a]]_vars

\* Both axes of the wheel have been sampled, the steering axis with the
\* larger sample first and the throttle axis with 0: the bounds are
\* (-200, 100) and (0, 0), and a tick has run with them.
C26_Witness ==
    /\ ax_min[SteeringAxis] = -200 /\ ax_max[SteeringAxis] = 100
    /\ ax_val[SteeringAxis] = -200
    /\ LET y == IF program = "gui" THEN "throttle" ELSE "y"
       IN  ax_min[y] = 0 /\ ax_max[y] = 0 /\ ax_val[y] = 0
    /\ ticks > 0


\* ------------------------------------------------ no throttle carry-over

\* What a tick computes from the button states, the axis values, the
\* calibration bounds, the press-start timestamps, the time and the
\* configuration of the current state, and from nothing else.
TickThrottle ==
    IF program = "gui"
    THEN ShapeStage(config, PedalStage(config, ax_min, ax_max, ax_val, button_states,
                                       button_press_start_time, now))
    ELSE cli_process(config, ax_min, ax_max, ax_val, button_states,
                     button_press_start_time, now)

MaxTimeGate == 4

\* Update rates: the default 200 Hz (a period far below one clock unit) and
\* 2 Hz (a period of ClockHz / 2 units).
GateRates == {200, 2}

\* A wheel that steers and a forward pedal.
GateEvents == KeyEvents({BTN_TR}) \cup AbsEvents({ABS_X}, {100})

\* Either program at its start, under each update rate; the GUI program
\* with or without a bus.
GateInit ==
    \/ GuiInit({[DefaultConfig EXCEPT !.update_hz = hz] : hz \in GateRates})
    \/ CliInit({[CliDefaultConfig EXCEPT !.update_hz = hz] : hz \in GateRates})

\* One session of the loop with input events and every bus behaviour.
SpecGate ==
    GateInit
    /\ [][\/ SessionNext(GateEvents, BusOutcomes, MaxTimeGate)
          \/ CliNext(GateEvents, BusOutcomes, MaxTimeGate)]_vars

\* The step is a run of the pipeline.
PipelineRun == ticks' = ticks + 1

\* The step is taken by a loop that stands at its gate, leaves the gate,
\* finds at least one period elapsed since its last run (or its entry) and
\* takes the current time as the time of its last run.
ThroughGate ==
    \E th \in Threads :
        /\ thread_pc[th] = "gate" /\ thread_pc'[th] # "gate"
        /\ (now - last_update[th]) * config.update_hz >= ClockHz
        /\ last_update'[th] = now

\* The step delivers an input event to the loop.
EventStep ==
    \/ inputVars' # inputVars
    \/ \E th \in Threads : thread_pc[th] = "select" /\ thread_pc'[th] = "read"

\* write() calls the run that has just ended issued on channel ch.
RunWrites(ch) ==
    Cardinality({i \in 1..Len(bus_log') :
                    bus_log'[i].ch = ch /\ bus_log'[i].src = "pipeline"})

MaxTimeStop == 2

\* A step of loop thread th outside the pipeline that needs no input:
\* select() returns after its 1 ms timeout at the latest, time.sleep(0.001)
\* returns, and the thread gets the processor.
LoopStep(th) ==
    \/ LoopEntry(th)
    \/ LoopWhile(th)
    \/ LoopNoEvents(th)
    \/ LoopSkip(th)

\* Weak fairness of the due tick of thread th, with the enabling condition
\* of LoopTick written out: process_inputs has no loop of its own and the
\* bus writes return.
TickFair(th) ==
    \/ []<>~(program = "gui" /\ thread_pc[th] = "gate" /\ Due(th))
    \/ []<><<LoopTick(th, OkOutcomes)>>_vars

\* The GUI program with a forward pedal and a bus that works: the operator
\* connects, starts and stops; the loop threads keep running.
SpecStop ==
    /\ GuiInit({DefaultConfig})
    /\ [][\/ SessionNext(KeyEvents({BTN_TR}), OkOutcomes, MaxTimeStop)
          \/ stop_controller
          \/ MainJoin]_vars
    /\ \A th \in Threads : WF_vars(LoopStep(th)) /\ TickFair(th)

MaxTimeRepeat == 2

\* A wheel that steers between two positions and a forward pedal.
RepeatEvents == KeyEvents({BTN_TR}) \cup AbsEvents({ABS_X}, {-100, 100})

\* Either program in one session with a bus that works.
SpecRepeat ==
    /\ GuiInit({DefaultConfig}) \/ CliInit({CliDefaultConfig})
    /\ [][\/ SessionNext(RepeatEvents, OkOutcomes, MaxTimeRepeat)
          \/ CliNext(RepeatEvents, OkOutcomes, MaxTimeRepeat)]_vars

\* The axis has received a sample.
Sampled(axis) == ax_min[axis] <= ax_max[axis]

\* The pressed flag the handler derives from a key event.
PressedFlag(e) == IF program = "gui" THEN e.value # 0 ELSE e.value = 1

\* Event e carries what the last event of its axis or button carried: the
\* raw value the axis had last, or the pressed flag the pedal has.
Repeats(e) ==
    IF e.type = "EV_ABS"
    THEN LET axis == IF program = "gui" THEN AxisOf(config, e.code)
                     ELSE CliAxisOf(config, e.code)
         IN  axis # "" /\ Sampled(axis) /\ ax_val[axis] = e.value
    ELSE IF program = "gui"
    THEN \/ e.code \in config.forward_pedal_codes /\ ForwardHeld = PressedFlag(e)
         \/ /\ e.code \notin config.forward_pedal_codes
            /\ e.code \in config.reverse_pedal_codes /\ ReverseHeld = PressedFlag(e)
    ELSE \/ e.code \in FORWARD_PEDAL_CODES /\ ForwardHeld = PressedFlag(e)
         \/ /\ e.code \notin FORWARD_PEDAL_CODES
            /\ e.code \in REVERSE_PEDAL_CODES /\ ReverseHeld = PressedFlag(e)

\* The step is the handling of event e by a loop.
Handles(e) == cli_event(e) \/ \E th \in Threads : LoopEvent(th, e)

\* C30: handling an event that repeats the last one of its axis or button
\* changes nothing but the loop's position: bounds, last values and button
\* states stay as the first occurrence left them, and so does everything a
\* later tick reads or writes (timestamps, filters, gate time, outputs).
C30_RepeatIsNoOp ==
    [][\A e \in RepeatEvents :
          (Repeats(e) /\ Handles(e))
          => UNCHANGED <<inputVars, pipeVars, busVars, last_update, config, now>>]_vars

\* A tick has run with forward held and with the steering axis at its only
\* sample so far, 100; since that tick the loop has handled an event, and
\* inputs are as the tick found them: the event was a repeat.
C30_Witness ==
    /\ \E th \in Threads : thread_pc[th] = "read"
    /\ ticks > 0 /\ loop_error = "none"
    /\ ForwardHeld /\ button_press_start_time.forward # None
    /\ ax_val[SteeringAxis] = 100
    /\ ax_min[SteeringAxis] = 100 /\ ax_max[SteeringAxis] = 100
    /\ processed_values.steering = -Scale


\* ------------------------------------------------- what a tick leaves alone

MaxTimeFrame == 2

\* A wheel that steers and both pedal buttons.
FrameEvents == KeyEvents({BTN_TR, BTN_TL}) \cup AbsEvents({ABS_X}, RawVals)

FrameInit == GuiInit({DefaultConfig}) \/ CliInit({CliDefaultConfig})

\* One session of either program; in the GUI program the operator may
\* press Reset Calibration.
SpecFrame ==
    FrameInit
    /\ [][\/ SessionNext(FrameEvents, OkOutcomes, MaxTimeFrame)
          \/ reset_calibration
          \/ MainResetMax
          \/ CliNext(FrameEvents, OkOutcomes, MaxTimeFrame)]_vars

\* The step is the handling of an input event by a loop.
HandlesEvent == \E e \in FrameEvents : Handles(e)

\* C31 as stated: a run of the pipeline leaves the last raw values, the
\* calibration bounds and the button states as they are, and no step other
\* than the handling of an input event changes any of them.
C31_OnlyEvents ==
    [][/\ PipelineRun => UNCHANGED inputVars
       /\ inputVars' # inputVars => HandlesEvent]_vars

\* C31, amended: a run of the pipeline leaves the last raw values, the
\* calibration bounds and the button states as they are; the last raw
\* values and the button states change only when an input event is handled,
\* the calibration bounds only then or by the two assignments of the
\* calibration reset.
C31_TickFrame ==
    [][/\ PipelineRun => UNCHANGED inputVars
       /\ <<ax_val, button_states>>' # <<ax_val, button_states>> => HandlesEvent
       /\ <<ax_min, ax_max>>' # <<ax_min, ax_max>>
          => (HandlesEvent \/ reset_calibration \/ MainResetMax)]_vars

\* A tick has just run with the steering axis sampled and a pedal held, and
\* all of that is still in place.
C31_Witness ==
    /\ ticks > 0 /\ loop_error = "none"
    /\ \E th \in Threads : thread_pc[th] \in {"while", "select"} /\ last_update[th] = now
    /\ ForwardHeld /\ forward_pressed
    /\ ax_val[SteeringAxis] = 100
    /\ ax_min[SteeringAxis] = 100 /\ ax_max[SteeringAxis] = 100
    /\ processed_values.steering # 0


\* ------------------------------------------------------ calibration reset

\* The axes input_loop tracks.
TrackedAxes == {"steering", "throttle", "combined_axis"}

\* The step is the second (last) assignment of reset_calibration.
ResetDone ==
    main_todo # <<>> /\ Head(main_todo) = "reset_max" /\ main_todo' = Tail(main_todo)

\* C32: when a calibration reset completes, every tracked axis has the
\* sentinel pair as bounds, and an event on a tracked axis is accepted: the
\* loop goes on and the axis's bounds enclose the sample.
C32_ResetRestores ==
    [][/\ ResetDone =>
            \A a \in TrackedAxes :
                /\ HasKey(ax_min', a) /\ HasKey(ax_max', a)
                /\ ax_min'[a] = SentinelMin /\ ax_max'[a] = SentinelMax
       /\ \A th \in Threads :
            \A e \in AbsEvents({ABS_X, ABS_Z}, RawVals \cup {100}) :
                (AxisOf(config, e.code) \in TrackedAxes /\ LoopEvent(th, e))
                => /\ thread_pc'[th] = "read"
                   /\ ax_min'[AxisOf(config, e.code)] <= e.value
                   /\ ax_max'[AxisOf(config, e.code)] >= e.value]_vars


\* -------------------------------------------------- filter buffer lifetime

\* The buffers as __init__ seeds them.
FilterSeed ==
    <<[i \in 1..SteeringWindow |-> 0], [i \in 1..ThrottleWindow |-> 0]>>

\* C33: the filter buffers change only by the push of a tick or by the
\* calibration reset, and a completed calibration reset leaves both buffers
\* at their all-zero seed.
C33_FiltersReset ==
    [][/\ <<steering_filter, throttle_filter>>' # <<steering_filter, throttle_filter>>
          => (PipelineRun \/ ResetDone)
       /\ ResetDone => <<steering_filter, throttle_filter>>' = FilterSeed]_vars


\* --------------------------------------------------- the two payload bytes

\* The largest 12-bit code.
DacMax == 4095

\* A controller is constructed and write() is called on one of its DACs
\* directly, with every code and every answer of the bus to the framed and
\* to the raw write.
WriteInit ==
    /\ Construct({DefaultConfig})
    /\ call \in [fn : {"MCP4725.write"},
                 args : {<<c, framedOk, rawOk>> :
                            c \in 0..DacMax, framedOk \in BOOLEAN, rawOk \in BOOLEAN},
                 result : {<<>>}]

call_write ==
    /\ call.fn = "MCP4725.write" /\ call.result = <<>>
    /\ call' = [call EXCEPT !.result =
                   <<MCP4725_write("steering", "call", call.args[1],
                                   call.args[2], call.args[3])>>]
    /\ UNCHANGED <<program, binding, config, now, device, grabbed, i2c_available,
                   bus_open, running, thread, thread_pc, last_update, main_todo,
                   join_t0, closed, loop_error, inputVars, pipeVars, busVars>>

SpecWrite == WriteInit /\ [][call_write]_vars

\* Python's a | b on non-negative integers.
RECURSIVE BitOr(_, _)
BitOr(a, b) ==
    IF a = 0 THEN b
    ELSE IF b = 0 THEN a
    ELSE (IF a % 2 = 1 \/ b % 2 = 1 THEN 1 ELSE 0) + 2 * BitOr(a \div 2, b \div 2)

\* C34: for every code c in 0..4095, every transaction of write(c) carries
\* the bytes hi = c >> 4 and lo = (c & 0xF) << 4, with hi <= 255, the low
\* nibble of lo zero and (hi << 4) | (lo >> 4) = c; the framed write carries
\* them behind the command byte 0x40, and the raw write of the fallback
\* carries the same two bytes and no command byte.
C34_TwoBytes ==
    (Returned /\ call.fn = "MCP4725.write") =>
        LET c == call.args[1]
            w == call.result[1]
        IN  /\ w.ops[1].kind = "write_i2c_block_data" /\ w.ops[1].cmd = 64
            /\ \A k \in 1..Len(w.ops) :
                LET hi == w.ops[k].data[1]
                    lo == w.ops[k].data[2]
                IN  /\ Len(w.ops[k].data) = 2
                    /\ hi = c \div 16 /\ hi \in 0..255
                    /\ lo = (c % 16) * 16 /\ lo \in 0..255 /\ lo % 16 = 0
                    /\ BitOr(hi * 16, lo \div 16) = c
            /\ Len(w.ops) = 2 =>
                /\ w.ops[2].kind = "i2c_rdwr" /\ w.ops[2].cmd = None
                /\ w.ops[2].data = w.ops[1].data

\* write(0xABC) whose framed write failed: both transactions carry the
\* bytes 0xAB and 0xC0.
C34_Witness ==
    /\ Returned /\ call.fn = "MCP4725.write"
    /\ call.args[1] = 2748 /\ ~call.args[2]
    /\ Len(call.result[1].ops) = 2
    /\ call.result[1].ops[2].data = <<171, 192>>


\* ------------------------------------------- reverse in the standalone loop

MaxTimeReverse == 4

\* The standalone program with both pedal buttons, with and without the
\* throttle inversion.
ReverseInit ==
    CliInit({CliDefaultConfig, [CliDefaultConfig EXCEPT !.invert_throttle = FALSE]})

SpecReverse ==
    ReverseInit
    /\ [][CliNext(KeyEvents({BTN_TR, BTN_TL}), OkOutcomes, MaxTimeReverse)]_vars

\* C35: in the standalone loop in buttons mode, a tick that finds reverse
\* pressed alone yields the throttle -1.0 before inversion, whenever the
\* press began, and the reverse press-start timestamp is None after every
\* step; a tick that finds forward pressed alone yields the ramp value for
\* the time since the forward press start, 0.0 on the tick that takes the
\* press start.
C35_InstantReverse ==
    [][program = "cli" =>
        /\ button_press_start_time'.reverse = None
        /\ (ticks' = ticks + 1 /\ ButtonsMode /\ ReverseHeld /\ ~ForwardHeld)
           => /\ throttle_norm' = -Scale
              /\ processed_values'.throttle =
                    IF config.invert_throttle THEN Scale ELSE -Scale
        /\ (ticks' = ticks + 1 /\ ButtonsMode /\ ForwardHeld /\ ~ReverseHeld)
           => /\ throttle_norm' =
                    apply_acceleration_curve(
                        Min2(Scale, FDiv(HeldFor' * Scale, config.throttle_ramp_duration)),
                        config.acceleration_curve, config.curve_strength)
              /\ button_press_start_time.forward = None
                 => (button_press_start_time'.forward = now /\ throttle_norm' = 0)]_vars

\* Without inversion, the last three ticks (at three different times) found
\* reverse pressed alone and each pushed -1.0; an earlier tick found
\* forward pressed and took its press start.
C35_Witness ==
    /\ program = "cli" /\ ~config.invert_throttle
    /\ ticks >= 4 /\ loop_error = "none"
    /\ ReverseHeld /\ ~ForwardHeld /\ reverse_pressed
    /\ throttle_norm = -Scale
    /\ \A k \in 1..ThrottleWindow : Slot(throttle_filter, k) = -Scale
    /\ button_press_start_time.reverse = None
    /\ button_press_start_time.forward # None


\* ------------------------------------------------------ binding capture

\* Events of the device used while binding: a pedal button and a steering
\* sample beyond the noise threshold.
BindingEvents == KeyEvents({BTN_TR}) \cup AbsEvents({ABS_X}, {2000})

\* An event a binding captures: a key press, or an axis sample with
\* |value| > 1000.
Bindable(e) == IF e.type = "EV_ABS" THEN Abs(e.value) > 1000 ELSE e.value # 0

\* C36: while a binding started by start_binding(target) is pending, the
\* loop's handling of the next key press (or axis sample beyond 1000) makes
\* that event's code the only configured code of the target and ends
\* binding mode; no other step changes the configured codes.
C36_BindingCaptures ==
    [][/\ \A e \in BindingEvents :
            (binding.gui_mode /\ Bindable(e) /\ \E th \in Threads : LoopEvent(th, e))
            => /\ config' = BoundConfig(config, binding.gui_target, e.code)
               /\ ~binding'.gui_mode
       /\ config' # config
            => (binding.gui_mode /\ \E e \in BindingEvents :
                                        Bindable(e) /\ \E th \in Threads : LoopEvent(th, e))]_vars


\* ------------------------------------------------ restart after the loop

\* C37: whenever the loop thread the controller last started has ended,
\* the running flag is False (so that start() is not refused).
C37_DeadMeansStopped ==
    (program = "gui" /\ thread # 0 /\ thread_pc[thread] = "dead") => ~running


\* ------------------------------------------------------- closing the window

MaxTimeClose == 5

\* The GUI program from construction to the closing of its window, with a
\* forward pedal and a bus that works.  Nothing bounds the time a loop
\* thread takes for a step (a bus transaction or a print may block).
SpecClose ==
    /\ GuiInit({DefaultConfig})
    /\ [][\/ SessionNext(KeyEvents({BTN_TR}), OkOutcomes, MaxTimeClose)
          \/ on_closing
          \/ MainJoin
          \/ MainCenter(OkOutcomes)
          \/ MainStop
          \/ MainRelease
          \/ MainDestroy
          \/ \E th \in Threads : LoopDeviceError(th)]_vars

\* on_closing is under way and its center_outputs() has returned.
ClosingCentred ==
    /\ program = "gui" /\ ~closed
    /\ main_todo # <<>> /\ main_todo[Len(main_todo)] = "destroy"
    /\ \A i \in 1..Len(main_todo) : main_todo[i] # "center"

\* C38: from the centring write of the shutdown sequence until the
\* application ends, each channel holds the code 2048: whatever a loop
\* thread that is still alive writes, it does not replace the centre code.
C38_CentreIsLast ==
    [][(ClosingCentred /\ i2c_available) =>
          \A ch \in Channels : dac'[ch].code = center]_vars


\* --------------------------------------------------- flushing the window

MaxTimeFlush == 5

\* Both pedal buttons at any time; the wheel is turned (one steering
\* sample) only while the throttle of the last tick is not zero, so that a
\* sampled steering axis tells that a pedal ramp has been output.
FlushEvents ==
    KeyEvents({BTN_TR, BTN_TL})
        \cup (IF throttle_norm # 0 THEN AbsEvents({ABS_X}, {100}) ELSE {})

FlushInit == GuiInit({DefaultConfig}) \/ CliInit({CliDefaultConfig})

\* One session of either program with a bus that works, for longer than
\* five update periods.
SpecFlush ==
    FlushInit
    /\ [][\/ SessionNext(FlushEvents, OkOutcomes, MaxTimeFlush)
          \/ CliNext(FlushEvents, OkOutcomes, MaxTimeFlush)]_vars

\* Neither pedal or both pedals are pressed.
Neutral == ForwardHeld = ReverseHeld

\* Buttons mode with zero throttle trim and no swap (the standalone
\* program has neither option).
PlainButtons ==
    /\ ButtonsMode
    /\ program = "gui" => (config.throttle_trim = 0 /\ ~config.swap_controls)

\* C39: in buttons mode with zero throttle trim and no swap, every tick
\* that finds neither or both pedals pressed pushes 0.0 into the throttle
\* window, and when the two pushes before it were 0.0 as well (so from the
\* third consecutive such tick on, for as long as the condition lasts) the
\* code it writes to the throttle channel is 2048, which the channel holds
\* unless the write fails.
C39_NeutralFlush ==
    [][(PipelineRun /\ PlainButtons /\ Neutral) =>
          /\ throttle_norm' = 0 /\ processed_values'.throttle = 0
          /\ filter_index' # filter_index =>
                /\ filter_index' = filter_index + 1
                /\ throttle_filter'[(filter_index % ThrottleWindow) + 1] = 0
                /\ \A i \in 1..ThrottleWindow :
                      i # (filter_index % ThrottleWindow) + 1
                      => throttle_filter'[i] = throttle_filter[i]
          /\ (Slot(throttle_filter, 1) = 0 /\ Slot(throttle_filter, 2) = 0) =>
                \A i \in 1..Len(bus_log') :
                    (bus_log'[i].src = "pipeline" /\ bus_log'[i].ch = "throttle")
                    => /\ bus_log'[i].arg = 2048
                       /\ ~bus_log'[i].raised => dac'.throttle.code = 2048]_vars

\* A pedal ramp has been output (the wheel was turned meanwhile); since
\* then the pedals have gone neutral, the last tick read them so, the
\* window holds three zeros again and the throttle channel was written
\* with 2048 by that tick.
C39_Witness ==
    /\ PlainButtons /\ Neutral /\ ticks >= 5 /\ loop_error = "none"
    /\ Sampled(SteeringAxis)
    /\ forward_pressed = reverse_pressed
    /\ \A k \in 1..ThrottleWindow : Slot(throttle_filter, k) = 0
    /\ Len(bus_log) = 2 /\ bus_log[2].src = "pipeline"
    /\ bus_log[2].ch = "throttle" /\ bus_log[2].arg = 2048
    /\ dac.throttle = [code |-> 2048, src |-> "pipeline"]


\* ------------------------------------------- one channel fails, the other

\* C40: in every pair of writes (a tick's, or a centring sequence's) whose
\* steering write failed on both paths, the throttle write is attempted
\* all the same.
C40_ThrottleAttempted ==
    (bus_log # <<>> /\ bus_log[1].ch = "steering" /\ bus_log[1].raised)
        => \E i \in 1..Len(bus_log) : bus_log[i].ch = "throttle"
====
